---- MODULE Spec2Model ----
(***************************************************************************)
(* The gameplay judgement core of rewind: GameState, cloneGameState and    *)
(* NextFrameEvaluator of libs/osu/core/src/gameplay/GameState.ts.          *)
(*                                                                         *)
(* Times are integer milliseconds, positions are integer points of the     *)
(* plane.  A position that results from an interpolation is kept as an     *)
(* exact fraction (x/den, y/den), and distances are compared squared, so   *)
(* no rounding enters the model.                                           *)
(*                                                                         *)
(* A JavaScript Set is an insertion-ordered sequence without duplicates,   *)
(* a Map whose iteration order the evaluator observes is a sequence of     *)
(* <<key, value>> pairs in insertion order, any other Map is a function.   *)
(* An optional number (number | undefined) is the set of its values: {}    *)
(* is undefined, {n} is n.                                                 *)
(***************************************************************************)
EXTENDS Integers, Sequences, FiniteSets, TLC

\* ------------------------------------------------------------------ bounds

\* The latest frame time fed to the evaluator.
MaxTime == 7
\* The largest forward step between two consecutive frames.
MaxStep == 2
\* The largest backward step of an out-of-order frame.
MaxBack == 1
\* The number of out-of-order frames in a run.
MaxOutOfOrder == 1
\* The number of frames of a replay that is fed from a list.
MaxFrames == 4

\* ------------------------------------------------------- program constants

NOT_PRESSING == 727727727

NoteLockStyles == {"NONE", "STABLE", "LAZER"}

OsuActions == {"leftButton", "rightButton"}

\* The button masks a replay frame can carry: the left button, up or down.
ActionSets == {{}, {"leftButton"}}

\* ---------------------------------------------------------------- helpers

Range(s) == {s[i] : i \in 1..Len(s)}

Abs(n) == IF n < 0 THEN -n ELSE n

Min(a, b) == IF a < b THEN a ELSE b

\* Map.set / Map.delete / Map.has on a Map whose order is never observed.
MapSet(m, k, v) == [x \in (DOMAIN m) \cup {k} |-> IF x = k THEN v ELSE m[x]]

MapDelete(m, k) == [x \in (DOMAIN m) \ {k} |-> m[x]]

MapHas(m, k) == k \in DOMAIN m

EmptyMap == [x \in {} |-> 0]

\* Set.add / Set.delete on an insertion-ordered Set.
SetAdd(s, x) == IF x \in Range(s) THEN s ELSE Append(s, x)

SetDelete(s, x) == SelectSeq(s, LAMBDA y : y # x)

\* Map.set / Map.delete / Map.get on an insertion-ordered Map: setting an
\* existing key keeps its place, a new key goes last.
OMapHas(m, k) == \E i \in 1..Len(m) : m[i][1] = k

OMapGet(m, k) == m[CHOOSE i \in 1..Len(m) : m[i][1] = k][2]

OMapSet(m, k, v) ==
  IF OMapHas(m, k)
  THEN [i \in 1..Len(m) |-> IF m[i][1] = k THEN <<k, v>> ELSE m[i]]
  ELSE Append(m, <<k, v>>)

OMapDelete(m, k) == SelectSeq(m, LAMBDA e : e[1] # k)

\* -------------------------------------------------------------- positions

Pos(x, y) == [x |-> x, y |-> y]

\* Vec2.Zero
Vec2Zero == Pos(0, 0)

\* A position as a fraction: the point (x/den, y/den).
Exact(p) == [x |-> p.x, y |-> p.y, den |-> 1]

\* Vec2.interpolate(a, b, f) with f = num/den: a + (b - a) * f.
Interpolate(a, b, num, den) ==
  [x |-> a.x * den + (b.x - a.x) * num,
   y |-> a.y * den + (b.y - a.y) * num,
   den |-> den]

\* Vec2.distance(p, q) > factor10/10 * radius, for an integer point p and a
\* fraction q, compared squared and scaled by (10 * q.den)^2.
DistanceGreater(p, q, factor10, radius) ==
  LET dx == p.x * q.den - q.x
      dy == p.y * q.den - q.y
      r  == factor10 * radius * q.den
  IN 100 * (dx * dx + dy * dy) > r * r

\* --------------------------------------------------------------- beatmaps

HitCircle(id, hitTime, spawnTime, position, radius) ==
  [kind |-> "HitCircle", id |-> id, hitTime |-> hitTime,
   spawnTime |-> spawnTime, position |-> position, radius |-> radius]

CheckPoint(id, hitTime) == [id |-> id, hitTime |-> hitTime]

\* ball[t] is slider.ballPositionAt(sliderProgress(slider, t)).
Slider(id, head, checkPoints, endTime, ball) ==
  [kind |-> "Slider", id |-> id, head |-> head, checkPoints |-> checkPoints,
   startTime |-> head.hitTime, endTime |-> endTime,
   duration |-> endTime - head.hitTime, spawnTime |-> head.spawnTime,
   radius |-> head.radius, ball |-> ball]

Spinner(id, startTime, endTime) ==
  [kind |-> "Spinner", id |-> id, startTime |-> startTime,
   endTime |-> endTime, spawnTime |-> startTime]

\* The positions a replay frame can carry.
P0 == Pos(0, 0)
P1 == Pos(4, 0)

Positions == {P0, P1}

\* hitWindowsForOD(...): [GREAT, OK, MEH, MISS].  Times are counted in ticks,
\* and a beatmap says how many ticks make a millisecond: 1 where the hit
\* times and windows are whole milliseconds, 2 where they come in halves.
WindowsA == <<0, 1, 2, 3>>
WindowsB == <<1, 2, 3, 5>>

\* Windows of 0.5, 0.5, 0.5 and 2 milliseconds, in half milliseconds.
WindowsHalf == <<1, 1, 1, 4>>

\* Two circles at different places and a third stacked on the second, with
\* the second's hit time.
MapCircles ==
  [hitWindows |-> WindowsA, millisecond |-> 1,
   hitObjects |-> <<HitCircle("c1", 3, 0, P0, 1),
                    HitCircle("c2", 4, 1, P1, 1),
                    HitCircle("c3", 4, 1, P1, 1)>>]

\* A slider whose ball runs from P0 to P1, with two checkpoints.
MapSlider ==
  [hitWindows |-> WindowsA, millisecond |-> 1,
   hitObjects |-> <<Slider("s1", HitCircle("s1h", 2, 0, P0, 1),
                           <<CheckPoint("s1k1", 3), CheckPoint("s1k2", 4)>>,
                           6, [t \in 2..6 |-> Pos(t - 2, 0)])>>]

\* A circle, a slider that ends before its head's hit window does, and a
\* spinner.
MapShort ==
  [hitWindows |-> WindowsB, millisecond |-> 1,
   hitObjects |-> <<HitCircle("c5", 3, 0, P1, 1),
                    Slider("s2", HitCircle("s2h", 4, 0, P0, 1),
                           <<CheckPoint("s2k1", 5)>>,
                           6, [t \in 4..6 |-> P0]),
                    Spinner("sp1", 5, 6)>>]

\* Two circles apart, in half milliseconds: one due at 2 ms, and one due at
\* 4 ms that is on screen long before its MISS window opens.
MapEarly ==
  [hitWindows |-> WindowsHalf, millisecond |-> 2,
   hitObjects |-> <<HitCircle("e1", 4, 0, P0, 1),
                    HitCircle("e2", 8, 0, P1, 1)>>]

\* Two sliders apart whose checkpoints meet at one time: t2 is on screen
\* first, and t1 has the earlier checkpoint.
MapTwoSliders ==
  [hitWindows |-> WindowsA, millisecond |-> 1,
   hitObjects |-> <<Slider("t2", HitCircle("t2h", 1, 0, P0, 1),
                           <<CheckPoint("t2k1", 3)>>,
                           5, [t \in 1..5 |-> P0]),
                    Slider("t1", HitCircle("t1h", 2, 1, P1, 1),
                           <<CheckPoint("t1k1", 2), CheckPoint("t1k2", 3)>>,
                           5, [t \in 2..5 |-> P1])>>]

Beatmaps == <<MapCircles, MapSlider, MapShort, MapEarly, MapTwoSliders>>

\* ------------------------------------------------------------------ state

VARIABLES
  bm,          \* the beatmap the evaluator was constructed with (an index)
  settings,    \* NextFrameEvaluatorOptions
  gameStates,  \* the GameState objects: their scalar fields and, per
               \* container field, the address of the container it refers to
  heap,        \* the containers (Map, Set, Array) by address
  evaluator,   \* the private fields of the one NextFrameEvaluator
  lastCall,    \* the arguments of the latest evaluateNextFrameMutated call
  outOfOrder,  \* the number of calls so far whose frame was out of order
  replays,     \* the frame lists of the run, by the object they are fed to
  cursor,      \* per GameState object, the number of frames of its list fed
  timeMachine  \* the latest query of the time machine

vars == <<bm, settings, gameStates, heap, evaluator, lastCall, outOfOrder,
          replays, cursor, timeMachine>>

\* The GameState objects of the runs; gameStates and heap hold the objects
\* allocated so far, and an address of the heap is the object the containers
\* at that address were allocated for.
Main == "main"
Other == "other"
Clone == "clone"

\* The fields of GameState that hold a container which is mutated in place.
ContainerFields ==
  {"hitCircleState", "sliderBodyState", "checkPointState", "sliderJudgement",
   "spinnerState", "judgedObjects", "aliveHitCircleIds", "aliveSliderIds",
   "aliveSpinnerIds", "nextCheckPointIndex"}

\* The fields of GameState that hold a value which is only ever reassigned.
ValueFields ==
  {"currentTime", "cursorPosition", "currentCombo", "maxCombo",
   "clickWasUseful", "latestHitObjectIndex", "pressingSince"}

\* defaultReplayState(): the GameState it returns, as one record.
defaultReplayState ==
  [currentTime |-> 0,
   cursorPosition |-> Vec2Zero,
   hitCircleState |-> EmptyMap,
   sliderBodyState |-> EmptyMap,
   checkPointState |-> EmptyMap,
   spinnerState |-> EmptyMap,
   sliderJudgement |-> EmptyMap,
   currentCombo |-> 0,
   maxCombo |-> 0,
   clickWasUseful |-> FALSE,
   latestHitObjectIndex |-> 0,
   aliveHitCircleIds |-> <<>>,
   aliveSliderIds |-> <<>>,
   aliveSpinnerIds |-> <<>>,
   judgedObjects |-> <<>>,
   nextCheckPointIndex |-> <<>>,
   pressingSince |-> <<NOT_PRESSING, NOT_PRESSING>>]

\* The objects, the containers and the evaluator: what calls work on.
Sys == [gameStates |-> gameStates, heap |-> heap, evaluator |-> evaluator]

\* The GameState object o as the code sees it: its own fields, and behind
\* each container field the container it refers to.
ViewOf(sys, o) ==
  [f \in ValueFields \cup ContainerFields |->
     IF f \in ValueFields THEN sys.gameStates[o][f]
     ELSE sys.heap[sys.gameStates[o].refs[f]][f]]

View(o) == ViewOf(Sys, o)

\* The object o after its fields were assigned from g, the containers of g
\* being fresh ones allocated at address o.
NewObject(o, g) ==
  [f \in ValueFields \cup {"refs"} |->
     IF f = "refs" THEN [c \in ContainerFields |-> o] ELSE g[f]]

Containers(g) == [c \in ContainerFields |-> g[c]]

\* ----------------------------------------------------------- the beatmap

Beatmap == Beatmaps[bm]

\* One millisecond, in ticks.
Millisecond == Beatmap.millisecond

hitObjectsBySpawnTime == Beatmap.hitObjects

SliderIndices ==
  {i \in 1..Len(hitObjectsBySpawnTime) : hitObjectsBySpawnTime[i].kind = "Slider"}

\* beatmap.getHitCircle(id): a hit circle or the head of a slider.
getHitCircle(id) ==
  LET objs == hitObjectsBySpawnTime
      i == CHOOSE j \in 1..Len(objs) :
             \/ objs[j].kind = "HitCircle" /\ objs[j].id = id
             \/ objs[j].kind = "Slider" /\ objs[j].head.id = id
  IN IF objs[i].kind = "HitCircle" THEN objs[i] ELSE objs[i].head

getSlider(id) ==
  hitObjectsBySpawnTime[CHOOSE j \in SliderIndices :
                          hitObjectsBySpawnTime[j].id = id]

getSpinner(id) ==
  LET objs == hitObjectsBySpawnTime
  IN objs[CHOOSE j \in 1..Len(objs) :
            objs[j].kind = "Spinner" /\ objs[j].id = id]

HitObjectVerdicts == [GREAT |-> 0, OK |-> 1, MEH |-> 2, MISS |-> 3]

\* this.hitWindows[HitObjectVerdicts[verdict]]
hitWindow(verdict) == Beatmap.hitWindows[HitObjectVerdicts[verdict] + 1]

\* A slip: "<" for "<=", so that the edge of a window is outside it.
isWithinHitWindow_Exclusive(delta, judgementType) ==
  Abs(delta) < hitWindow(judgementType)

isWithinHitWindow(delta, judgementType) == Abs(delta) <= hitWindow(judgementType)

\* ------------------------------------------------- pressing and tracking

\* progress is (time - slider.startTime) / slider.duration; the model reads
\* the ball position at that progress from slider.ball[time].
ballPositionAtTime(slider, time) == slider.ball[time]

\* A slip: the follow circle is always the wide one.
determineTracking_WideFollow(previouslyTracking, slider, cursorPosition, time, pressingSince, headHitTime) ==
  LET keyIsBeingPressed ==
        \E i \in 1..Len(pressingSince) : pressingSince[i] # NOT_PRESSING
  IN IF ~keyIsBeingPressed THEN FALSE
     ELSE IF time < slider.startTime \/ slider.endTime <= time THEN FALSE
     ELSE IF DistanceGreater(ballPositionAtTime(slider, time), cursorPosition,
                             24, slider.radius) THEN FALSE
     ELSE IF headHitTime = {} THEN TRUE
     ELSE \E i \in 1..Len(pressingSince) :
            \A t \in headHitTime : pressingSince[i] >= t

\* cursorPosition is a fraction; headHitTime is an optional number.
determineTracking(previouslyTracking, slider, cursorPosition, time, pressingSince, headHitTime) ==
  LET keyIsBeingPressed ==
        \E i \in 1..Len(pressingSince) : pressingSince[i] # NOT_PRESSING
      followFactor10 == IF previouslyTracking THEN 24 ELSE 10
  IN IF ~keyIsBeingPressed THEN FALSE
     ELSE IF time < slider.startTime \/ slider.endTime <= time THEN FALSE
     ELSE IF DistanceGreater(ballPositionAtTime(slider, time), cursorPosition,
                             followFactor10, slider.radius) THEN FALSE
     ELSE IF headHitTime = {} THEN TRUE
     ELSE \E i \in 1..Len(pressingSince) :
            \A t \in headHitTime : pressingSince[i] >= t

actionsToBooleans(osuActions) ==
  <<"leftButton" \in osuActions, "rightButton" \in osuActions>>

\* A slip: a held button takes the time of the frame, not the earlier of the
\* two times.
newPressingSince_LatestTime(pressingSince, osuActions, time) ==
  LET pressed == actionsToBooleans(osuActions)
  IN [i \in 1..Len(pressingSince) |->
        IF pressed[i] THEN time ELSE NOT_PRESSING]

newPressingSince(pressingSince, osuActions, time) ==
  LET pressed == actionsToBooleans(osuActions)
  IN [i \in 1..Len(pressingSince) |->
        IF pressed[i] THEN Min(pressingSince[i], time) ELSE NOT_PRESSING]

\* A slip: ">" for ">=", so that exactly half of the checkpoints is MEH.
sliderJudgementBasedOnCheckpoints_MoreThanHalf(totalCheckpoints, hitCheckpoints) ==
  IF hitCheckpoints = totalCheckpoints THEN "GREAT"
  ELSE IF hitCheckpoints = 0 THEN "MISS"
  ELSE IF hitCheckpoints * 2 > totalCheckpoints THEN "OK"
  ELSE "MEH"

sliderJudgementBasedOnCheckpoints(totalCheckpoints, hitCheckpoints) ==
  IF hitCheckpoints = totalCheckpoints THEN "GREAT"
  ELSE IF hitCheckpoints = 0 THEN "MISS"
  ELSE IF hitCheckpoints * 2 >= totalCheckpoints THEN "OK"
  ELSE "MEH"

\* ------------------------------------------------------ NextFrameEvaluator
\* `this` is the evaluator during a call: its private fields, with
\* this.gameState the GameState it was handed, as View gives it.

hasFreshClickThisFrame(this) ==
  \E i \in 1..Len(this.gameState.pressingSince) :
    this.gameState.pressingSince[i] = this.gameState.currentTime

\* Math.min(earliest ?? 1e10, h.hitTime) over the alive hit circles; every
\* hit time of the model is below 1e10.
earliestHitCircleStartTime(this, onlyConsiderFutureOnes) ==
  LET alive == this.gameState.aliveHitCircleIds
      times == {getHitCircle(alive[i]).hitTime : i \in
                 {j \in 1..Len(alive) :
                    ~(onlyConsiderFutureOnes
                      /\ getHitCircle(alive[j]).hitTime < this.gameState.currentTime)}}
  IN IF times = {} THEN {}
     ELSE {CHOOSE t \in times : \A u \in times : t <= u}

\* A slip: timeSupposedToClick is never set back to an earlier time.
determineTimeSupposedToClick_KeepLater(this) ==
  [this EXCEPT
     !.timeSupposedToClick =
        IF \E a \in @, b \in earliestHitCircleStartTime(this, FALSE) : a > b
        THEN @ ELSE earliestHitCircleStartTime(this, FALSE),
     !.nextTimeSupposedToClick = earliestHitCircleStartTime(this, TRUE)]

determineTimeSupposedToClick(this) ==
  [this EXCEPT !.timeSupposedToClick = earliestHitCircleStartTime(this, FALSE),
               !.nextTimeSupposedToClick = earliestHitCircleStartTime(this, TRUE)]

\* A slip: the loop counts from the first hit object in every call, not from
\* latestHitObjectIndex.
RECURSIVE RescanLoop(_)
RescanLoop(gs) ==
  IF gs.latestHitObjectIndex < Len(hitObjectsBySpawnTime)
  THEN LET hitObject == hitObjectsBySpawnTime[gs.latestHitObjectIndex + 1]
       IN IF hitObject.spawnTime > gs.currentTime THEN gs
          ELSE RescanLoop(
                 [(IF hitObject.kind = "Spinner"
                   THEN [gs EXCEPT !.aliveSpinnerIds = SetAdd(@, hitObject.id)]
                   ELSE IF hitObject.kind = "HitCircle"
                   THEN [gs EXCEPT !.aliveHitCircleIds = SetAdd(@, hitObject.id)]
                   ELSE [gs EXCEPT
                           !.aliveHitCircleIds = SetAdd(@, hitObject.head.id),
                           !.aliveSliderIds = SetAdd(@, hitObject.id),
                           !.nextCheckPointIndex = OMapSet(@, hitObject.id, 0)])
                  EXCEPT !.latestHitObjectIndex = @ + 1])
  ELSE gs

checkNewAliveHitObjects_Rescan(gs) ==
  RescanLoop([gs EXCEPT !.latestHitObjectIndex = 0])

\* A slip: ">=" for ">", so that an object is not taken in the frame that is at
\* its spawn time.
RECURSIVE checkNewAliveHitObjects_AfterSpawnTime(_)
checkNewAliveHitObjects_AfterSpawnTime(gs) ==
  IF gs.latestHitObjectIndex < Len(hitObjectsBySpawnTime)
  THEN LET hitObject == hitObjectsBySpawnTime[gs.latestHitObjectIndex + 1]
       IN IF hitObject.spawnTime >= gs.currentTime THEN gs
          ELSE checkNewAliveHitObjects_AfterSpawnTime(
                 [(IF hitObject.kind = "Spinner"
                   THEN [gs EXCEPT !.aliveSpinnerIds = SetAdd(@, hitObject.id)]
                   ELSE IF hitObject.kind = "HitCircle"
                   THEN [gs EXCEPT !.aliveHitCircleIds = SetAdd(@, hitObject.id)]
                   ELSE [gs EXCEPT
                           !.aliveHitCircleIds = SetAdd(@, hitObject.head.id),
                           !.aliveSliderIds = SetAdd(@, hitObject.id),
                           !.nextCheckPointIndex = OMapSet(@, hitObject.id, 0)])
                  EXCEPT !.latestHitObjectIndex = @ + 1])
  ELSE gs

RECURSIVE checkNewAliveHitObjects(_)
checkNewAliveHitObjects(gs) ==
  IF gs.latestHitObjectIndex < Len(hitObjectsBySpawnTime)
  THEN LET hitObject == hitObjectsBySpawnTime[gs.latestHitObjectIndex + 1]
       IN IF hitObject.spawnTime > gs.currentTime THEN gs
          ELSE checkNewAliveHitObjects(
                 [(IF hitObject.kind = "Spinner"
                   THEN [gs EXCEPT !.aliveSpinnerIds = SetAdd(@, hitObject.id)]
                   ELSE IF hitObject.kind = "HitCircle"
                   THEN [gs EXCEPT !.aliveHitCircleIds = SetAdd(@, hitObject.id)]
                   ELSE [gs EXCEPT
                           !.aliveHitCircleIds = SetAdd(@, hitObject.head.id),
                           !.aliveSliderIds = SetAdd(@, hitObject.id),
                           !.nextCheckPointIndex = OMapSet(@, hitObject.id, 0)])
                  EXCEPT !.latestHitObjectIndex = @ + 1])
  ELSE gs

\* A slip: the id is not deleted from the alive set.
finishHitCircle_KeepAlive(gs, id, state) ==
  [gs EXCEPT !.hitCircleState = MapSet(@, id, state),
             !.judgedObjects = Append(@, id)]

finishHitCircle(gs, id, state) ==
  [gs EXCEPT !.hitCircleState = MapSet(@, id, state),
             !.aliveHitCircleIds = SetDelete(@, id),
             !.judgedObjects = Append(@, id)]

\* The number of checkpoints of the slider whose checkPointState says hit.
HitCheckPointCount(gs, slider) ==
  Cardinality({i \in 1..Len(slider.checkPoints) :
                 /\ MapHas(gs.checkPointState, slider.checkPoints[i].id)
                 /\ gs.checkPointState[slider.checkPoints[i].id].hit})

\* A slip: the slider keeps its entry in nextCheckPointIndex.
finishSlider_KeepNextCheckPoint(gs, id) ==
  LET slider == getSlider(id)
      gs1 == IF ~MapHas(gs.hitCircleState, slider.head.id)
             THEN finishHitCircle(gs, slider.head.id,
                    [judgementTime |-> slider.endTime, type |-> "MISS",
                     missReason |-> "SLIDER_FINISHED_FASTER"])
             ELSE gs
      headCount == IF gs1.hitCircleState[slider.head.id].type = "MISS"
                   THEN 0 ELSE 1
      judgement == sliderJudgementBasedOnCheckpoints(
                     Len(slider.checkPoints) + 1,
                     headCount + HitCheckPointCount(gs1, slider))
  IN [gs1 EXCEPT !.sliderJudgement = MapSet(@, id, judgement),
                 !.judgedObjects = Append(@, slider.id),
                 !.aliveSliderIds = SetDelete(@, id),
                 !.sliderBodyState = MapDelete(@, id),
                 !.aliveHitCircleIds = SetDelete(@, slider.head.id)]

\* A slip: the cleanup also drops the states of the slider's checkpoints.
finishSlider_DropCheckPointStates(gs, id) ==
  LET slider == getSlider(id)
      gs1 == IF ~MapHas(gs.hitCircleState, slider.head.id)
             THEN finishHitCircle(gs, slider.head.id,
                    [judgementTime |-> slider.endTime, type |-> "MISS",
                     missReason |-> "SLIDER_FINISHED_FASTER"])
             ELSE gs
      headCount == IF gs1.hitCircleState[slider.head.id].type = "MISS"
                   THEN 0 ELSE 1
      judgement == sliderJudgementBasedOnCheckpoints(
                     Len(slider.checkPoints) + 1,
                     headCount + HitCheckPointCount(gs1, slider))
      kept == DOMAIN gs1.checkPointState
                \ {slider.checkPoints[k].id : k \in 1..Len(slider.checkPoints)}
  IN [gs1 EXCEPT !.sliderJudgement = MapSet(@, id, judgement),
                 !.judgedObjects = Append(@, slider.id),
                 !.aliveSliderIds = SetDelete(@, id),
                 !.nextCheckPointIndex = OMapDelete(@, id),
                 !.sliderBodyState = MapDelete(@, id),
                 !.checkPointState = [c \in kept |-> gs1.checkPointState[c]],
                 !.aliveHitCircleIds = SetDelete(@, slider.head.id)]

\* A slip: the head is finished with the slider whether or not it has a
\* state already.
HeadHasNoState_Unchecked(gs, slider) == TRUE

\* finishSlider: the head is cleaned up only if it has no state yet.
HeadHasNoState(gs, slider) == ~MapHas(gs.hitCircleState, slider.head.id)

finishSlider(gs, id) ==
  LET slider == getSlider(id)
      gs1 == IF HeadHasNoState(gs, slider)
             THEN finishHitCircle(gs, slider.head.id,
                    [judgementTime |-> slider.endTime, type |-> "MISS",
                     missReason |-> "SLIDER_FINISHED_FASTER"])
             ELSE gs
      totalCheckpoints == Len(slider.checkPoints) + 1
      headCount == IF /\ MapHas(gs1.hitCircleState, slider.head.id)
                      /\ gs1.hitCircleState[slider.head.id].type = "MISS"
                   THEN 0 ELSE 1
      hitCheckpoints == headCount + HitCheckPointCount(gs1, slider)
      judgement == sliderJudgementBasedOnCheckpoints(totalCheckpoints, hitCheckpoints)
  IN [gs1 EXCEPT !.sliderJudgement = MapSet(@, id, judgement),
                 !.judgedObjects = Append(@, slider.id),
                 !.aliveSliderIds = SetDelete(@, id),
                 !.nextCheckPointIndex = OMapDelete(@, id),
                 !.sliderBodyState = MapDelete(@, id),
                 !.aliveHitCircleIds = SetDelete(@, slider.head.id)]

\* The note lock policies of handleHitCircle.
noNoteLock(this, hitCircle) == FALSE

\* A slip: "<=" for "<", so that a circle locks itself and its equals.
osuStableNoteLock_Inclusive(this, hitCircle) ==
  \E t \in this.timeSupposedToClick : t <= hitCircle.hitTime

osuStableNoteLock(this, hitCircle) ==
  \E t \in this.timeSupposedToClick : t < hitCircle.hitTime

\* A slip: the lazer policy looks at timeSupposedToClick, so that a circle
\* whose hit time has passed locks too.
osuLazerNoteLock_PastToo(this, hitCircle) ==
  IF this.timeSupposedToClick = {} THEN FALSE
  ELSE \E t \in this.timeSupposedToClick : t < hitCircle.hitTime

osuLazerNoteLock(this, hitCircle) ==
  IF this.nextTimeSupposedToClick = {} THEN FALSE
  ELSE \E t \in this.nextTimeSupposedToClick : t < hitCircle.hitTime

noteLocked(this, hitCircle) ==
  IF settings.noteLockStyle = "NONE" THEN noNoteLock(this, hitCircle)
  ELSE IF settings.noteLockStyle = "STABLE" THEN osuStableNoteLock(this, hitCircle)
  ELSE osuLazerNoteLock(this, hitCircle)

\* A slip: the verdicts are tried from the widest window.
FirstHitVerdict_WidestFirst(timeDelta) ==
  IF isWithinHitWindow(timeDelta, "MEH") THEN {"MEH"}
  ELSE IF isWithinHitWindow(timeDelta, "OK") THEN {"OK"}
  ELSE IF isWithinHitWindow(timeDelta, "GREAT") THEN {"GREAT"}
  ELSE {}

\* The first of GREAT, OK, MEH whose window holds timeDelta, as an optional.
FirstHitVerdict(timeDelta) ==
  IF isWithinHitWindow(timeDelta, "GREAT") THEN {"GREAT"}
  ELSE IF isWithinHitWindow(timeDelta, "OK") THEN {"OK"}
  ELSE IF isWithinHitWindow(timeDelta, "MEH") THEN {"MEH"}
  ELSE {}

\* A slip: the circle dies with the last millisecond of its MEH window.
earliestDeadTime_NoGrace(hitCircle) == hitCircle.hitTime + hitWindow("MEH")

\* If we can't even do a Meh anymore, then judge it as a miss.
earliestDeadTime(hitCircle) ==
  hitCircle.hitTime + hitWindow("MEH") + Millisecond

\* A slip: the circle is said to have died at the time of the frame.
TimeExpired_AtFrameTime(hitCircle, currentTime) ==
  [judgementTime |-> currentTime, type |-> "MISS",
   missReason |-> "TIME_EXPIRED"]

\* The state of a circle that died unclicked: it died at earliestDeadTime,
\* however late the frame that finds it dead.
TimeExpired(hitCircle, currentTime) ==
  [judgementTime |-> earliestDeadTime(hitCircle), type |-> "MISS",
   missReason |-> "TIME_EXPIRED"]

\* A slip: the check of the cursor against the circle is missing.
cursorOutside_Unchecked(gs, hitCircle) == FALSE

\* Vec2.distance(hitCircle.position, this.cursorPosition) > hitCircle.radius
cursorOutside(gs, hitCircle) ==
  DistanceGreater(hitCircle.position, Exact(gs.cursorPosition), 10, hitCircle.radius)

\* A slip: the guard on clickWasUseful is missing, so that one click goes on
\* to every circle under the cursor.
handleHitCircle_ClickNeverUsed(this, id) ==
  LET gs == this.gameState
      hitCircle == getHitCircle(id)
      currentTime == gs.currentTime
      timeDelta == currentTime - hitCircle.hitTime
      verdict == FirstHitVerdict(timeDelta)
  IN IF earliestDeadTime(hitCircle) <= currentTime
     THEN [this EXCEPT !.gameState =
             finishHitCircle(gs, id, TimeExpired(hitCircle, currentTime))]
     ELSE IF ~hasFreshClickThisFrame(this) THEN this
     ELSE IF cursorOutside(gs, hitCircle) THEN this
     ELSE IF noteLocked(this, hitCircle) THEN this
     ELSE IF verdict # {}
     THEN [this EXCEPT !.gameState =
             [finishHitCircle(gs, id,
                [judgementTime |-> currentTime,
                 type |-> CHOOSE v \in verdict : TRUE])
              EXCEPT !.clickWasUseful = TRUE]]
     ELSE IF isWithinHitWindow(timeDelta, "MISS")
     THEN [this EXCEPT !.gameState =
             finishHitCircle(gs, id,
               [judgementTime |-> currentTime, type |-> "MISS",
                missReason |-> "HIT_TOO_EARLY"])]
     ELSE this

handleHitCircle(this, id) ==
  LET gs == this.gameState
      hitCircle == getHitCircle(id)
      currentTime == gs.currentTime
      timeDelta == currentTime - hitCircle.hitTime
      verdict == FirstHitVerdict(timeDelta)
  IN IF earliestDeadTime(hitCircle) <= currentTime
     THEN [this EXCEPT !.gameState =
             finishHitCircle(gs, id, TimeExpired(hitCircle, currentTime))]
     ELSE IF ~hasFreshClickThisFrame(this) THEN this
     ELSE IF gs.clickWasUseful THEN this
     ELSE IF cursorOutside(gs, hitCircle) THEN this
     ELSE IF noteLocked(this, hitCircle) THEN this
     ELSE IF verdict # {}
     THEN [this EXCEPT !.gameState =
             [finishHitCircle(gs, id,
                [judgementTime |-> currentTime,
                 type |-> CHOOSE v \in verdict : TRUE])
              EXCEPT !.clickWasUseful = TRUE]]
     ELSE IF isWithinHitWindow(timeDelta, "MISS")
     THEN [this EXCEPT !.gameState =
             finishHitCircle(gs, id,
               [judgementTime |-> currentTime, type |-> "MISS",
                missReason |-> "HIT_TOO_EARLY"])]
     ELSE this

\* Array.prototype.sort by hit time: stable, so circles with equal hit times
\* keep the order of the alive set.
RECURSIVE SortByHitTime(_)
SortByHitTime(ids) ==
  IF Len(ids) <= 1 THEN ids
  ELSE LET front == SortByHitTime(SubSeq(ids, 1, Len(ids) - 1))
           last == ids[Len(ids)]
           before == SelectSeq(front, LAMBDA x :
                       getHitCircle(x).hitTime <= getHitCircle(last).hitTime)
           after == SelectSeq(front, LAMBDA x :
                      getHitCircle(x).hitTime > getHitCircle(last).hitTime)
       IN before \o <<last>> \o after

RECURSIVE HandleEach(_, _)
HandleEach(this, ids) ==
  IF ids = <<>> THEN this
  ELSE HandleEach(handleHitCircle(this, Head(ids)), Tail(ids))

\* A slip: only the first of the alive circles is handled.
handleHitCircles_FirstOnly(this) ==
  HandleEach(this, SubSeq(SortByHitTime(this.gameState.aliveHitCircleIds), 1,
                          Min(1, Len(this.gameState.aliveHitCircleIds))))

handleHitCircles(this) ==
  HandleEach(this, SortByHitTime(this.gameState.aliveHitCircleIds))

headHitTime(gs, headId) ==
  IF ~MapHas(gs.hitCircleState, headId) THEN {}
  ELSE IF gs.hitCircleState[headId].type = "MISS" THEN {}
  ELSE {gs.hitCircleState[headId].judgementTime}

\* sliderBodyState.get(id)?.isTracking ?? false
wasTracking(gs, id) ==
  IF MapHas(gs.sliderBodyState, id) THEN gs.sliderBodyState[id].isTracking
  ELSE FALSE

RECURSIVE UpdateEach(_, _)
UpdateEach(gs, ids) ==
  IF ids = <<>> THEN gs
  ELSE LET id == Head(ids)
           slider == getSlider(id)
           isTracking ==
             determineTracking(wasTracking(gs, id), slider,
                               Exact(gs.cursorPosition), gs.currentTime,
                               gs.pressingSince, headHitTime(gs, slider.head.id))
       IN UpdateEach([gs EXCEPT !.sliderBodyState =
                        MapSet(@, id, [isTracking |-> isTracking])],
                     Tail(ids))

updateSliderBodyTracking(this) ==
  [this EXCEPT !.gameState = UpdateEach(@, @.aliveSliderIds)]

\* A slip: "<" for "<=", so that a slider is not over in the frame that is at
\* its end time.
RECURSIVE JudgeEach_Exclusive(_, _)
JudgeEach_Exclusive(gs, ids) ==
  IF ids = <<>> THEN gs
  ELSE JudgeEach_Exclusive(IF getSlider(Head(ids)).endTime < gs.currentTime
                           THEN finishSlider(gs, Head(ids)) ELSE gs,
                           Tail(ids))

RECURSIVE JudgeEach(_, _)
JudgeEach(gs, ids) ==
  IF ids = <<>> THEN gs
  ELSE JudgeEach(IF getSlider(Head(ids)).endTime <= gs.currentTime
                 THEN finishSlider(gs, Head(ids)) ELSE gs,
                 Tail(ids))

handleSliderJudgment(this) ==
  [this EXCEPT !.gameState = JudgeEach(@, @.aliveSliderIds)]

predictedPositionAt(this, time) ==
  IF this.previousTime = {this.gameState.currentTime}
  THEN Exact(this.gameState.cursorPosition)
  ELSE LET previousTime == CHOOSE t \in this.previousTime : TRUE
       IN Interpolate(this.previousPosition, this.gameState.cursorPosition,
                      time - previousTime,
                      this.gameState.currentTime - previousTime)

\* A slip: "<=" for "<" against earliestTime, so that of the checkpoints with
\* the least hit time the last in the Map's order is taken.
SliderIdOfEarliest_LastOfEqual(gs) ==
  LET next == gs.nextCheckPointIndex
      hitTimeOf(i) == getSlider(next[i][1]).checkPoints[next[i][2] + 1].hitTime
      due == {i \in 1..Len(next) : hitTimeOf(i) < gs.currentTime}
      last == {i \in due : \A j \in due :
                 \/ hitTimeOf(i) < hitTimeOf(j)
                 \/ hitTimeOf(i) = hitTimeOf(j) /\ i >= j}
  IN {next[i][1] : i \in last}

\* The for loop of handleSliderCheckPoints: the slider of the first entry of
\* nextCheckPointIndex, in the Map's order, whose next checkpoint has the
\* least hit time among those below currentTime; {} when there is none.
SliderIdOfEarliest(gs) ==
  LET next == gs.nextCheckPointIndex
      hitTimeOf(i) == getSlider(next[i][1]).checkPoints[next[i][2] + 1].hitTime
      due == {i \in 1..Len(next) : hitTimeOf(i) < gs.currentTime}
      first == {i \in due : \A j \in due :
                  \/ hitTimeOf(i) < hitTimeOf(j)
                  \/ hitTimeOf(i) = hitTimeOf(j) /\ i <= j}
  IN {next[i][1] : i \in first}

\* slider.checkPoints[checkPointIndex] in the for loop of
\* handleSliderCheckPoints is undefined for an index that is no index of
\* checkPoints, and checkPoint.hitTime then throws a TypeError.
CheckPointReadFails(gs) ==
  \E i \in 1..Len(gs.nextCheckPointIndex) :
    gs.nextCheckPointIndex[i][2]
      \notin 0..(Len(getSlider(gs.nextCheckPointIndex[i][1]).checkPoints) - 1)

\* A slip: "<=" for "<", so that the index goes on to the length of
\* checkPoints.
AdvanceCheckPointIndex_OffByOne(next, slider, index) ==
  IF index + 1 <= Len(slider.checkPoints)
  THEN OMapSet(next, slider.id, index + 1)
  ELSE OMapDelete(next, slider.id)

\* The end of the loop body of handleSliderCheckPoints: nextCheckPointIndex
\* goes on to the next checkpoint of the slider, or drops the slider.
AdvanceCheckPointIndex(next, slider, index) ==
  IF index + 1 < Len(slider.checkPoints)
  THEN OMapSet(next, slider.id, index + 1)
  ELSE OMapDelete(next, slider.id)

\* Math.ceil(checkPoint.hitTime - 1e-10): hit times are integers.
TimeToCheck(checkPoint) == checkPoint.hitTime

\* A slip: a checkpoint is judged with the buttons of the frame that crosses
\* it.
CheckPointButtons_OfThisFrame(this, oldPressingSince) ==
  this.gameState.pressingSince

\* The pressingSince handed to determineTracking for a checkpoint: the one
\* the call was entered with.
CheckPointButtons(this, oldPressingSince) == oldPressingSince

RECURSIVE handleSliderCheckPoints(_, _)
handleSliderCheckPoints(this, oldPressingSince) ==
  LET gs == this.gameState
      found == SliderIdOfEarliest(gs)
  IN IF CheckPointReadFails(gs) THEN this
     ELSE IF found = {} THEN this
     ELSE LET sliderIdOfEarliest == CHOOSE id \in found : TRUE
              slider == getSlider(sliderIdOfEarliest)
              index == OMapGet(gs.nextCheckPointIndex, sliderIdOfEarliest)
              checkPoint == slider.checkPoints[index + 1]
              timeToCheck == TimeToCheck(checkPoint)
              predictedPosition == predictedPositionAt(this, timeToCheck)
              isTracking ==
                determineTracking(wasTracking(gs, slider.id), slider,
                                  predictedPosition, timeToCheck,
                                  CheckPointButtons(this, oldPressingSince),
                                  headHitTime(gs, slider.head.id))
          IN handleSliderCheckPoints(
               [this EXCEPT !.gameState =
                  [gs EXCEPT
                     !.checkPointState = MapSet(@, checkPoint.id, [hit |-> isTracking]),
                     !.judgedObjects = Append(@, checkPoint.id),
                     !.nextCheckPointIndex =
                        AdvanceCheckPointIndex(@, slider, index)]],
               oldPressingSince)

RECURSIVE SpinEach(_, _)
SpinEach(gs, ids) ==
  IF ids = <<>> THEN gs
  ELSE SpinEach(IF getSpinner(Head(ids)).endTime < gs.currentTime
                THEN [gs EXCEPT !.aliveSpinnerIds = SetDelete(@, Head(ids)),
                                !.judgedObjects = Append(@, Head(ids))]
                ELSE gs,
                Tail(ids))

\* A slip: a spinner that is over is judged but not deleted from the alive set.
RECURSIVE SpinEach_KeepAlive(_, _)
SpinEach_KeepAlive(gs, ids) ==
  IF ids = <<>> THEN gs
  ELSE SpinEach_KeepAlive(
         IF getSpinner(Head(ids)).endTime < gs.currentTime
         THEN [gs EXCEPT !.judgedObjects = Append(@, Head(ids))]
         ELSE gs,
         Tail(ids))

handleSpinners_KeepAlive(this) ==
  [this EXCEPT !.gameState = SpinEach_KeepAlive(@, @.aliveSpinnerIds)]

handleSpinners(this) ==
  [this EXCEPT !.gameState = SpinEach(@, @.aliveSpinnerIds)]

\* A replay frame.
Frame(time, position, actions) ==
  [time |-> time, position |-> position, actions |-> actions]

\* The first statements of evaluateNextFrameMutated, up to the new
\* pressingSince: `this` with its position and time of the previous frame
\* taken from the GameState handed in, and that GameState bound to the frame.
\* A slip: the previous time and position are only taken over from a
\* GameState that is not earlier than the one of the call before.
BindFrame_KeepPrevious(this, previousGameState, frame) ==
  [this EXCEPT
     !.previousPosition =
        IF \E t \in this.previousTime : previousGameState.currentTime < t
        THEN @ ELSE previousGameState.cursorPosition,
     !.previousTime =
        IF \E t \in this.previousTime : previousGameState.currentTime < t
        THEN @ ELSE {previousGameState.currentTime},
     !.gameState =
        [previousGameState EXCEPT
           !.currentTime = frame.time,
           !.cursorPosition = frame.position,
           !.clickWasUseful = FALSE,
           !.pressingSince = newPressingSince(@, frame.actions, frame.time)]]

\* A slip: a frame earlier than the state it is applied to leaves the time.
BindFrame_ClampTime(this, previousGameState, frame) ==
  [this EXCEPT
     !.previousPosition = previousGameState.cursorPosition,
     !.previousTime = {previousGameState.currentTime},
     !.gameState =
        [previousGameState EXCEPT
           !.currentTime = IF frame.time < @ THEN @ ELSE frame.time,
           !.cursorPosition = frame.position,
           !.clickWasUseful = FALSE,
           !.pressingSince = newPressingSince(@, frame.actions, frame.time)]]

BindFrame(this, previousGameState, frame) ==
  [this EXCEPT
     !.previousPosition = previousGameState.cursorPosition,
     !.previousTime = {previousGameState.currentTime},
     !.gameState =
        [previousGameState EXCEPT
           !.currentTime = frame.time,
           !.cursorPosition = frame.position,
           !.clickWasUseful = FALSE,
           !.pressingSince = newPressingSince(@, frame.actions, frame.time)]]

\* evaluateNextFrameMutated up to determineTimeSupposedToClick: the evaluator
\* as handleHitCircles finds it.
BeforeCircles(this, previousGameState, frame) ==
  determineTimeSupposedToClick(
    [BindFrame(this, previousGameState, frame)
       EXCEPT !.gameState = checkNewAliveHitObjects(@)])

\* The rest of evaluateNextFrameMutated after handleSliderCheckPoints, which
\* left the evaluator as `this`.
AfterCheckPoints(this) ==
  IF CheckPointReadFails(this.gameState) THEN this
  ELSE handleSpinners(updateSliderBodyTracking(this))

\* A slip: the sliders are finished before the hit circles are handled.
evaluateNextFrameMutated_SlidersFirst(this, previousGameState, frame) ==
  AfterCheckPoints(
    handleSliderCheckPoints(
      handleHitCircles(
        handleSliderJudgment(BeforeCircles(this, previousGameState, frame))),
      previousGameState.pressingSince))

\* evaluateNextFrameMutated(previousGameState, frame) on the evaluator `this`:
\* the evaluator after the call, this.gameState being the GameState as the
\* call left it.
\* A TypeError thrown in handleSliderCheckPoints ends the call there.
evaluateNextFrameMutated(this, previousGameState, frame) ==
  AfterCheckPoints(
    handleSliderCheckPoints(
      handleSliderJudgment(
        handleHitCircles(BeforeCircles(this, previousGameState, frame))),
      previousGameState.pressingSince))

\* ------------------------------------------------------------- the system

\* The evaluator as constructed: no private field but gameState is
\* assigned, and its own GameState is never handed out.
NewEvaluator ==
  [timeSupposedToClick |-> {},
   nextTimeSupposedToClick |-> {},
   previousTime |-> {},
   previousPosition |-> {},
   gameState |-> "own"]

NoCall == [target |-> "none", frame |-> Frame(0, Vec2Zero, {})]

\* The beatmaps and note lock styles an evaluator is constructed with.
Scenarios ==
  {<<1, "NONE">>, <<1, "STABLE">>, <<1, "LAZER">>,
   <<2, "STABLE">>, <<3, "STABLE">>, <<3, "LAZER">>}

\* new NextFrameEvaluator(beatmap, settings) for one of the scenarios, and
\* a defaultReplayState() for each of objs.
Constructed(scenarios, objs) ==
  /\ \E scenario \in scenarios :
       /\ bm = scenario[1]
       /\ settings = [noteLockStyle |-> scenario[2]]
  /\ gameStates = [o \in objs |-> NewObject(o, defaultReplayState)]
  /\ heap = [o \in objs |-> Containers(defaultReplayState)]
  /\ evaluator = NewEvaluator
  /\ lastCall = NoCall
  /\ outOfOrder = 0
  /\ cursor = [o \in {Main, Other, Clone} |-> 0]
  /\ timeMachine = [time |-> {}, base |-> {}]

Init ==
  /\ Constructed(Scenarios, {Main})
  /\ replays = EmptyMap

\* What a call on the GameState object o leaves behind: the fields of o are
\* assigned from done.gameState, and the containers o refers to hold what
\* the call made of them, wherever else they are referred to.
Committed(sys, o, done) ==
  [gameStates |->
     [sys.gameStates EXCEPT ![o] =
        [f \in ValueFields \cup {"refs"} |->
           IF f = "refs" THEN sys.gameStates[o].refs ELSE done.gameState[f]]],
   heap |->
     [a \in DOMAIN sys.heap |->
        [c \in ContainerFields |->
           IF sys.gameStates[o].refs[c] = a THEN done.gameState[c]
           ELSE sys.heap[a][c]]],
   evaluator |-> [done EXCEPT !.gameState = o]]

\* evaluator.evaluateNextFrameMutated(o, frame), as a function of the system.
Call(sys, o, frame) ==
  Committed(sys, o,
    evaluateNextFrameMutated([sys.evaluator EXCEPT !.gameState = ViewOf(sys, o)],
                             ViewOf(sys, o), frame))

Become(sys) ==
  /\ gameStates' = sys.gameStates
  /\ heap' = sys.heap
  /\ evaluator' = sys.evaluator

\* The evaluator entering a call on the GameState object o.
CallThis(o) == [evaluator EXCEPT !.gameState = View(o)]

\* evaluator.evaluateNextFrameMutated(o, frame)
Evaluate(o, frame) ==
  /\ Become(Call(Sys, o, frame))
  /\ lastCall' = [target |-> o, frame |-> frame]
  /\ UNCHANGED <<bm, settings, replays, timeMachine>>

Times == 0..MaxTime

\* The next frame of a replay in time order; the time of a frame is a whole
\* number of milliseconds.
Advance ==
  \E time \in Times, position \in Positions, actions \in ActionSets :
    /\ time % Millisecond = 0
    /\ time >= gameStates[Main].currentTime
    /\ time <= gameStates[Main].currentTime + MaxStep
    /\ Evaluate(Main, Frame(time, position, actions))
    /\ UNCHANGED <<outOfOrder, cursor>>

\* A frame earlier than the state it is applied to.
AdvanceOutOfOrder ==
  \E time \in Times, position \in Positions, actions \in ActionSets :
    /\ time % Millisecond = 0
    /\ time < gameStates[Main].currentTime
    /\ time >= gameStates[Main].currentTime - MaxBack
    /\ outOfOrder < MaxOutOfOrder
    /\ Evaluate(Main, Frame(time, position, actions))
    /\ outOfOrder' = outOfOrder + 1
    /\ UNCHANGED cursor

\* A replay fed frame by frame in time order.
Next == Advance

Spec == Init /\ [][Next]_vars

\* Frames in any order.
NextAnyOrder == Advance \/ AdvanceOutOfOrder

\* The beatmap with a circle, a slider and a spinner, under the stable policy.
InitAnyOrder ==
  /\ Constructed({<<3, "STABLE">>}, {Main})
  /\ replays = EmptyMap

SpecAnyOrder == InitAnyOrder /\ [][NextAnyOrder]_vars

\* The beatmaps for the clicks on hit circles and slider heads: the three
\* circles under the two note lock policies, the slider, and the circles in
\* half milliseconds without a policy.
InitCircles ==
  /\ Constructed({<<1, "STABLE">>, <<1, "LAZER">>, <<2, "STABLE">>,
                  <<4, "NONE">>}, {Main})
  /\ replays = EmptyMap

NextCircles == Advance

SpecCircles == InitCircles /\ [][NextCircles]_vars

\* The beatmaps with a slider.
InitSliders ==
  /\ Constructed({<<2, "STABLE">>, <<3, "STABLE">>}, {Main})
  /\ replays = EmptyMap

NextSliders == Advance

SpecSliders == InitSliders /\ [][NextSliders]_vars

\* The beatmap with two sliders at once.
InitTwoSliders ==
  /\ Constructed({<<5, "STABLE">>}, {Main})
  /\ replays = EmptyMap

NextTwoSliders == Advance

SpecTwoSliders == InitTwoSliders /\ [][NextTwoSliders]_vars

\* ------------------------------------------------------ replays from a list

\* The beatmaps and note lock styles of the runs that feed frame lists.
ReplayScenarios == {<<1, "STABLE">>, <<2, "STABLE">>, <<3, "LAZER">>}

\* The cursor paths of the replays: at rest, back and forth, and across.
Paths ==
  {[i \in 1..MaxFrames |-> P0],
   [i \in 1..MaxFrames |-> IF i % 2 = 1 THEN P0 ELSE P1],
   [i \in 1..MaxFrames |-> IF i <= 2 THEN P1 ELSE P0]}

\* The frames of a replay in which the left button is down: all of them, or
\* every second one.
Downs ==
  {1..MaxFrames,
   {i \in 1..MaxFrames : i % 2 = 1},
   {i \in 1..MaxFrames : i % 2 = 0}}

\* The replays: MaxFrames frames two milliseconds apart.
Replays ==
  {[i \in 1..MaxFrames |->
      Frame(start + 2 * (i - 1), path[i],
            IF i \in down THEN {"leftButton"} ELSE {})] :
     start \in {0, 1}, path \in Paths, down \in Downs}

\* The frames of a replay up to time, and those after `after` up to time.
FramesUpTo(replay, time) == SelectSeq(replay, LAMBDA f : f.time <= time)

FramesBetween(replay, after, time) ==
  SelectSeq(replay, LAMBDA f : after < f.time /\ f.time <= time)

\* The loop of evaluateWholeReplay.
RECURSIVE EvaluateEach(_, _)
EvaluateEach(this, frames) ==
  IF frames = <<>> THEN this
  ELSE EvaluateEach(evaluateNextFrameMutated(this, this.gameState, Head(frames)),
                    Tail(frames))

\* evaluateWholeReplay(evaluator, replay): the state it returns.
evaluateWholeReplay(this, replay) ==
  EvaluateEach([this EXCEPT !.gameState = defaultReplayState], replay).gameState

\* A slip: judgedObjects is handed over, not copied.
cloneGameState_SharedJudgedObjects(sys, replayState, fresh) ==
  [sys EXCEPT
     !.gameStates = MapSet(@, fresh,
        [f \in ValueFields \cup {"refs"} |->
           IF f = "refs"
           THEN [c \in ContainerFields |->
                   IF c = "judgedObjects"
                   THEN sys.gameStates[replayState].refs[c] ELSE fresh]
           ELSE sys.gameStates[replayState][f]]),
     !.heap = MapSet(@, fresh,
        [c \in ContainerFields |->
           sys.heap[sys.gameStates[replayState].refs[c]][c]])]

\* A slip: hitCircleState is handed over, not copied.
cloneGameState_SharedHitCircleState(sys, replayState, fresh) ==
  [sys EXCEPT
     !.gameStates = MapSet(@, fresh,
        [f \in ValueFields \cup {"refs"} |->
           IF f = "refs"
           THEN [c \in ContainerFields |->
                   IF c = "hitCircleState"
                   THEN sys.gameStates[replayState].refs[c] ELSE fresh]
           ELSE sys.gameStates[replayState][f]]),
     !.heap = MapSet(@, fresh,
        [c \in ContainerFields |->
           sys.heap[sys.gameStates[replayState].refs[c]][c]])]

\* cloneGameState(replayState), its result allocated as the object `fresh`:
\* the values are copied, and every container is a new one with the entries
\* of the container replayState refers to.
cloneGameState(sys, replayState, fresh) ==
  [sys EXCEPT
     !.gameStates = MapSet(@, fresh,
        [f \in ValueFields \cup {"refs"} |->
           IF f = "refs" THEN [c \in ContainerFields |-> fresh]
           ELSE sys.gameStates[replayState][f]]),
     !.heap = MapSet(@, fresh,
        [c \in ContainerFields |->
           sys.heap[sys.gameStates[replayState].refs[c]][c]])]

\* The next frame of its list is fed to the object o.
Feed(o) ==
  /\ o \in DOMAIN gameStates
  /\ cursor[o] < Len(replays[o])
  /\ Evaluate(o, replays[o][cursor[o] + 1])
  /\ cursor' = [cursor EXCEPT ![o] = @ + 1]
  /\ UNCHANGED outOfOrder

\* Two states, each with its own list, on the one evaluator in any order.
InitPure ==
  /\ Constructed(ReplayScenarios, {Main, Other})
  /\ replays \in [{Main, Other} -> Replays]

NextPure == Feed(Main) \/ Feed(Other)

SpecPure == InitPure /\ [][NextPure]_vars

\* c = cloneGameState(s) somewhere along the list of s; from there on s and c
\* each go on with a list of their own.
TakeClone ==
  /\ Clone \notin DOMAIN gameStates
  /\ Become(cloneGameState(Sys, Main, Clone))
  /\ cursor' = [cursor EXCEPT ![Clone] = cursor[Main]]
  /\ UNCHANGED <<bm, settings, lastCall, outOfOrder, replays, timeMachine>>

InitClone ==
  /\ Constructed(ReplayScenarios, {Main})
  /\ replays \in [{Main, Clone} -> Replays]

NextClone == Feed(Main) \/ TakeClone \/ Feed(Clone)

SpecClone == InitClone /\ [][NextClone]_vars

\* The replays with both buttons: MaxFrames frames at rest, one or two
\* milliseconds apart, each with any of the button masks.
ButtonReplays ==
  {[i \in 1..MaxFrames |-> Frame(start + step * (i - 1), P0, buttons[i])] :
     start \in {0, 1}, step \in {1, 2},
     buttons \in [1..MaxFrames -> SUBSET OsuActions]}

\* One state is fed one of the lists on the beatmap with the slider.
InitButtons ==
  /\ Constructed({<<2, "STABLE">>}, {Main})
  /\ replays \in [{Main} -> ButtonReplays]

NextButtons == Feed(Main)

SpecButtons == InitButtons /\ [][NextButtons]_vars

\* The replays of MaxFrames frames with every choice of buttons, whose first
\* frame has the cursor away from the slider and whose other frames have it
\* on the head of the slider.
TrackingReplays ==
  {[i \in 1..MaxFrames |->
      Frame(start + step * (i - 1), IF i = 1 THEN P1 ELSE P0, buttons[i])] :
     start \in {0, 1}, step \in {1, 2},
     buttons \in [1..MaxFrames -> SUBSET OsuActions]}

InitTracking ==
  /\ Constructed({<<2, "STABLE">>}, {Main})
  /\ replays \in [{Main} -> TrackingReplays]

NextTracking == Feed(Main)

SpecTracking == InitTracking /\ [][NextTracking]_vars

\* --------------------------------------------------------- the time machine
\* BucketedGameStateTimeMachine: a snapshot of the game state per bucket of
\* BucketInterval milliseconds.  The snapshot of bucket b is the state after
\* every frame up to the time b * BucketInterval, that of bucket 0 is the
\* default state; the state at a time is the latest snapshot that is not
\* later than the time, cloned and fed the frames from there up to the time.

BucketInterval == 3

\* The GameState the time machine works on and hands out, and its snapshots.
Work == "work"

Snapshots == <<"snap0", "snap1", "snap2", "snap3">>

Snap(b) == Snapshots[b + 1]

BucketTime(b) == IF b = 0 THEN -1 ELSE b * BucketInterval

Stored(sys) ==
  {b \in 0..(Len(Snapshots) - 1) : Snap(b) \in DOMAIN sys.gameStates}

\* The latest snapshot with currentTime <= time.
LatestSnapshot(sys, time) ==
  CHOOSE b \in Stored(sys) :
    /\ ViewOf(sys, Snap(b)).currentTime <= time
    /\ \A c \in Stored(sys) :
         ViewOf(sys, Snap(c)).currentTime <= time => c <= b

RECURSIVE FeedAll(_, _, _)
FeedAll(sys, o, frames) ==
  IF frames = <<>> THEN sys
  ELSE FeedAll(Call(sys, o, Head(frames)), o, Tail(frames))

\* A clone of the working state is kept for the bucket, once.
StoreSnapshot(sys, b) ==
  IF b >= Len(Snapshots) \/ Snap(b) \in DOMAIN sys.gameStates THEN sys
  ELSE cloneGameState(sys, Work, Snap(b))

\* The working state, which stands at the snapshot of bucket b, is fed the
\* frames up to time, a snapshot being kept at each bucket it passes.
RECURSIVE Forward(_, _, _, _)
Forward(sys, replay, b, time) ==
  IF BucketTime(b + 1) <= time
  THEN Forward(
         StoreSnapshot(
           FeedAll(sys, Work,
                   FramesBetween(replay, BucketTime(b), BucketTime(b + 1))),
           b + 1),
         replay, b + 1, time)
  ELSE FeedAll(sys, Work, FramesBetween(replay, BucketTime(b), time))

gameStateAt(sys, replay, time) ==
  Forward(cloneGameState(sys, Snap(LatestSnapshot(sys, time)), Work),
          replay, LatestSnapshot(sys, time), time)

\* timeMachine.gameStateAt(time)
Query ==
  \E time \in Times :
    /\ Become(gameStateAt(Sys, replays[Work], time))
    /\ timeMachine' = [time |-> {time}, base |-> {LatestSnapshot(Sys, time)}]
    /\ lastCall' =
         LET fed == FramesBetween(replays[Work],
                                  BucketTime(LatestSnapshot(Sys, time)), time)
         IN IF fed = <<>> THEN lastCall
            ELSE [target |-> Work, frame |-> fed[Len(fed)]]
    /\ UNCHANGED <<bm, settings, outOfOrder, replays, cursor>>

\* new BucketedGameStateTimeMachine(replay.frames, beatmap, settings)
InitTimeMachine ==
  /\ Constructed(ReplayScenarios, {Snap(0)})
  /\ replays \in [{Work} -> Replays]

NextTimeMachine == Query

SpecTimeMachine == InitTimeMachine /\ [][NextTimeMachine]_vars

\* ------------------------------------------------------------- the claims

IndexOf(s, x) == CHOOSE i \in 1..Len(s) : s[i] = x

NoDuplicates(s) == \A i, j \in 1..Len(s) : s[i] = s[j] => i = j

\* The evaluator as handleHitCircle(id) finds it, in the call which
\* handleHitCircles enters as p4: the circles sorted before id are handled.
AtCircle(p4, id) ==
  HandleEach(p4, SubSeq(SortByHitTime(p4.gameState.aliveHitCircleIds), 1,
                        IndexOf(SortByHitTime(p4.gameState.aliveHitCircleIds), id) - 1))

\* The frame carries a fresh click which no circle has used yet, and the
\* cursor is inside hitCircle.
ClickReaches(this, hitCircle) ==
  /\ hasFreshClickThisFrame(this)
  /\ ~this.gameState.clickWasUseful
  /\ ~DistanceGreater(hitCircle.position, Exact(this.gameState.cursorPosition),
                      10, hitCircle.radius)

\* The evaluator entering handleHitCircles in the call on Main with frame.
Phase4(frame) == BeforeCircles(CallThis(Main), View(Main), frame)

\* C1: after every evaluateNextFrameMutated call, whatever the time of its
\* frame, the currentTime of the GameState it was called on is the time of
\* that frame, the latest frame fed in.
C1_TimeIsFrameTime ==
  lastCall.target # "none" =>
    View(lastCall.target).currentTime = lastCall.frame.time

\* A call with a frame earlier than the state it found has set the time back.
C1_Witness ==
  /\ lastCall.target = Main
  /\ \E t \in evaluator.previousTime : lastCall.frame.time < t
  /\ View(Main).currentTime = lastCall.frame.time

\* C2: a call with frame.time < state.currentTime is rejected and leaves
\* every field of the GameState unchanged.
C2_OutOfOrderRejected ==
  [][(lastCall'.target = Main /\ lastCall'.frame.time < View(Main).currentTime)
       => View(Main)' = View(Main)]_vars

\* C3: no id occurs twice in judgedObjects.
C3_NoDoubleJudgement == NoDuplicates(View(Main).judgedObjects)

\* A slider, its head and all its checkpoints are judged.
C3_Witness ==
  \E i \in SliderIndices :
    LET slider == hitObjectsBySpawnTime[i]
    IN {slider.id, slider.head.id}
         \cup {slider.checkPoints[k].id : k \in 1..Len(slider.checkPoints)}
         \subseteq Range(View(Main).judgedObjects)

SliderOrdered(gs, slider) ==
  MapHas(gs.sliderJudgement, slider.id) =>
    /\ MapHas(gs.hitCircleState, slider.head.id)
    /\ slider.id \in Range(gs.judgedObjects)
    /\ slider.head.id \in Range(gs.judgedObjects)
    /\ IndexOf(gs.judgedObjects, slider.head.id) < IndexOf(gs.judgedObjects, slider.id)
    /\ \A k \in 1..Len(slider.checkPoints) :
         slider.checkPoints[k].id \in Range(gs.judgedObjects) =>
           IndexOf(gs.judgedObjects, slider.checkPoints[k].id)
             < IndexOf(gs.judgedObjects, slider.id)

\* C4: a slider with a verdict has a head with a hitCircleState entry, and in
\* judgedObjects the slider comes after its head and after every one of its
\* checkpoints that is judged.
C4_SliderOrdering ==
  \A i \in SliderIndices : SliderOrdered(View(Main), hitObjectsBySpawnTime[i])

\* A slider has its verdict and one of its checkpoints was judged.
C4_Witness ==
  \E i \in SliderIndices :
    LET slider == hitObjectsBySpawnTime[i]
    IN /\ MapHas(View(Main).sliderJudgement, slider.id)
       /\ \E k \in 1..Len(slider.checkPoints) :
            slider.checkPoints[k].id \in Range(View(Main).judgedObjects)

\* The two cases of the boundary for the circle id, alive as
\* handleHitCircles is entered as p4, post being the state the call leaves.
BoundaryCase(p4, id, hitCircle, post) ==
  LET t == p4.gameState.currentTime
      lastMeh == hitCircle.hitTime + hitWindow("MEH")
  IN /\ (/\ t = lastMeh
         /\ ClickReaches(AtCircle(p4, id), hitCircle)
         /\ ~noteLocked(AtCircle(p4, id), hitCircle))
          => /\ MapHas(post.hitCircleState, hitCircle.id)
             /\ post.hitCircleState[hitCircle.id].type = "MEH"
             /\ post.hitCircleState[hitCircle.id].judgementTime = t
     /\ (t = lastMeh + 1)
          => /\ MapHas(post.hitCircleState, hitCircle.id)
             /\ post.hitCircleState[hitCircle.id].type = "MISS"
             /\ post.hitCircleState[hitCircle.id].missReason = "TIME_EXPIRED"
             /\ post.hitCircleState[hitCircle.id].judgementTime = t

BoundaryCases(p4, post) ==
  \A id \in Range(p4.gameState.aliveHitCircleIds) :
    BoundaryCase(p4, id, getHitCircle(id), post)

\* C5: the same frame list fed twice, each time to a fresh default state,
\* gives states equal in every field after every frame.
C5_Determinism ==
  (replays[Main] = replays[Other] /\ cursor[Main] = cursor[Other])
    => View(Main) = View(Other)

\* Both runs of one list are through, and objects were judged.
C5_Witness ==
  /\ replays[Main] = replays[Other]
  /\ cursor[Main] = MaxFrames
  /\ cursor[Other] = MaxFrames
  /\ Len(View(Main).judgedObjects) >= 2

\* A step that feeds no frame to the object o leaves it as it was.
Untouched(o) == (cursor[o]' = cursor[o]) => (View(o)' = View(o))

\* C6: once c = cloneGameState(s), a call on c leaves every field and
\* container of s as it was, and a call on s leaves c as it was.
C6_CloneIsolation ==
  [][(Clone \in DOMAIN gameStates) => (Untouched(Main) /\ Untouched(Clone))]_vars

\* Original and clone have each judged a circle after the cloning, and
\* differently.
C6_Witness ==
  /\ Clone \in DOMAIN gameStates
  /\ \E id \in DOMAIN View(Main).hitCircleState
                 \cap DOMAIN View(Clone).hitCircleState :
       View(Main).hitCircleState[id].type # View(Clone).hitCircleState[id].type

\* C7: the state of the time machine at time T, made from the latest
\* snapshot with currentTime <= T, is the state of a fresh default state fed
\* all frames with time <= T.
C7_TimeMachineEquivalence ==
  \A time \in timeMachine.time :
    View(Work) = evaluateWholeReplay(NewEvaluator, FramesUpTo(replays[Work], time))

\* A query started from the snapshot of a later bucket than the first, which
\* had judged objects, and went on from there to judge more.
C7_Witness ==
  \E b \in timeMachine.base :
    /\ b >= 1
    /\ Len(View(Snap(b)).judgedObjects) >= 1
    /\ View(Work).currentTime > View(Snap(b)).currentTime
    /\ Len(View(Work).judgedObjects) > Len(View(Snap(b)).judgedObjects)

\* C8: with the calls for two states interleaved on one evaluator, each
\* state is what its own frames give when run alone on a new evaluator.
C8_Purity ==
  \A o \in {Main, Other} :
    View(o) = evaluateWholeReplay(NewEvaluator, SubSeq(replays[o], 1, cursor[o]))

\* Two different lists, each fed two frames or more, with different objects
\* judged, the latest call being one for the state that is behind.
C8_Witness ==
  /\ replays[Main] # replays[Other]
  /\ cursor[Main] >= 2
  /\ cursor[Other] > cursor[Main]
  /\ lastCall.target = Main
  /\ View(Main).judgedObjects # <<>>
  /\ View(Other).judgedObjects # <<>>
  /\ View(Main).judgedObjects # View(Other).judgedObjects

\* C9: a frame at hitTime + MEH window with a fresh, unused click inside an
\* unlocked alive circle makes it MEH with judgementTime = currentTime; a
\* frame at hitTime + MEH window + 1 makes an alive circle MISS/TIME_EXPIRED,
\* click or no click.
C9_HitWindowBoundary ==
  [][lastCall'.target = Main
       => \A p4 \in {Phase4(lastCall'.frame)}, post \in {View(Main)'} :
            BoundaryCases(p4, post)]_vars

\* A circle was just hit at the last millisecond of its MEH window.
C9_Witness ==
  \E id \in DOMAIN View(Main).hitCircleState :
    /\ View(Main).hitCircleState[id].type = "MEH"
    /\ View(Main).hitCircleState[id].judgementTime
         = getHitCircle(id).hitTime + hitWindow("MEH")
    /\ View(Main).currentTime = View(Main).hitCircleState[id].judgementTime

\* The least hit time of the alive hit circles, as an optional.
MinAliveHitTime(gs) ==
  {getHitCircle(id).hitTime : id \in
     {a \in Range(gs.aliveHitCircleIds) :
        \A b \in Range(gs.aliveHitCircleIds) :
          getHitCircle(a).hitTime <= getHitCircle(b).hitTime}}

StaysAlive(post, hitCircle) ==
  /\ ~MapHas(post.hitCircleState, hitCircle.id)
  /\ hitCircle.id \in Range(post.aliveHitCircleIds)

\* hitCircle is the head of a slider that ended in this call, and went with it.
EndedWithSlider(post, hitCircle) ==
  \E i \in SliderIndices :
    LET slider == hitObjectsBySpawnTime[i]
    IN /\ slider.head.id = hitCircle.id
       /\ slider.endTime <= post.currentTime
       /\ MapHas(post.hitCircleState, hitCircle.id)
       /\ post.hitCircleState[hitCircle.id].type = "MISS"
       /\ post.hitCircleState[hitCircle.id].missReason = "SLIDER_FINISHED_FASTER"
       /\ post.hitCircleState[hitCircle.id].judgementTime = slider.endTime

JudgedByClick(post, hitCircle) ==
  /\ MapHas(post.hitCircleState, hitCircle.id)
  /\ post.hitCircleState[hitCircle.id].judgementTime = post.currentTime
  /\ \/ post.hitCircleState[hitCircle.id].type # "MISS"
     \/ post.hitCircleState[hitCircle.id].missReason = "HIT_TOO_EARLY"

\* A fresh, unused click inside a circle that has not timed out, under the
\* stable policy: the circle is locked iff the least hit time of the circles
\* alive before handleHitCircles is below its own.  Locked, it is left as
\* `left` says; not locked and within the MISS window, the click judges it.
StableLockCase(p4, this, hitCircle, post, left(_, _)) ==
  LET t == this.gameState.currentTime
      locked == \E s \in MinAliveHitTime(p4.gameState) : s < hitCircle.hitTime
  IN (/\ settings.noteLockStyle = "STABLE"
      /\ ClickReaches(this, hitCircle)
      /\ t < hitCircle.hitTime + hitWindow("MEH") + 1)
       => /\ locked => left(post, hitCircle)
          /\ (~locked /\ Abs(t - hitCircle.hitTime) <= hitWindow("MISS"))
               => JudgedByClick(post, hitCircle)

\* The cases of a frame with a fresh click, for every circle alive as
\* handleHitCircles is entered as p4.
StableLockCases(p4, post, left(_, _)) ==
  hasFreshClickThisFrame(p4) =>
    \A id \in Range(p4.gameState.aliveHitCircleIds) :
      \A this \in {AtCircle(p4, id)} :
        StableLockCase(p4, this, getHitCircle(id), post, left)

AliveOrEndedWithSlider(post, hitCircle) ==
  StaysAlive(post, hitCircle) \/ EndedWithSlider(post, hitCircle)

\* C10 as stated: under the stable policy a circle is locked iff
\* t_supposed < hitTime, and a locked circle is not judged and stays alive.
C10_LockedStaysAlive ==
  [][lastCall'.target = Main
       => StableLockCases(Phase4(lastCall'.frame), View(Main)', StaysAlive)]_vars

\* C10 amended: under the stable policy a circle is locked iff
\* t_supposed < hitTime; a locked circle is not judged by the click and stays
\* alive, unless it is the head of a slider whose endTime the frame has
\* reached, which goes with its slider as MISS/SLIDER_FINISHED_FASTER.
C10_StableNoteLock ==
  [][lastCall'.target = Main
       => \A p4 \in {Phase4(lastCall'.frame)}, post \in {View(Main)'} :
            StableLockCases(p4, post, AliveOrEndedWithSlider)]_vars

\* A fresh click inside a circle within its MEH window left it alive: it was
\* locked by an earlier circle.
C10_Witness ==
  /\ settings.noteLockStyle = "STABLE"
  /\ \E id \in Range(View(Main).aliveHitCircleIds) :
       /\ ClickReaches([gameState |-> View(Main)], getHitCircle(id))
       /\ Abs(View(Main).currentTime - getHitCircle(id).hitTime) <= hitWindow("MEH")

\* The circle has a hit verdict (GREAT, OK or MEH) in post.
HitNow(post, id) ==
  /\ MapHas(post.hitCircleState, id)
  /\ post.hitCircleState[id].type \in {"GREAT", "OK", "MEH"}

InsideCircle(gs, hitCircle) ==
  ~DistanceGreater(hitCircle.position, Exact(gs.cursorPosition), 10, hitCircle.radius)

\* The pairs of circles alive as handleHitCircles is entered as p4 that have
\* one hit time and both hold the cursor, the frame being a fresh click
\* within their MEH window.
ClickablePairs(p4) ==
  IF ~hasFreshClickThisFrame(p4) THEN {}
  ELSE {pair \in Range(p4.gameState.aliveHitCircleIds)
                   \X Range(p4.gameState.aliveHitCircleIds) :
          /\ pair[1] # pair[2]
          /\ getHitCircle(pair[1]).hitTime = getHitCircle(pair[2]).hitTime
          /\ InsideCircle(p4.gameState, getHitCircle(pair[1]))
          /\ InsideCircle(p4.gameState, getHitCircle(pair[2]))
          /\ isWithinHitWindow(p4.gameState.currentTime
                                 - getHitCircle(pair[1]).hitTime, "MEH")}

\* C11 as stated: one fresh click within the hit window of two alive circles
\* of one hit time that both hold the cursor hits both when the note lock
\* style is NONE, and at most one of them when it is STABLE or LAZER.
C11_BothHitUnderNone ==
  [][lastCall'.target = Main
       => \A p4 \in {Phase4(lastCall'.frame)}, post \in {View(Main)'} :
            \A pair \in ClickablePairs(p4) :
              IF settings.noteLockStyle = "NONE"
              THEN HitNow(post, pair[1]) /\ HitNow(post, pair[2])
              ELSE ~(HitNow(post, pair[1]) /\ HitNow(post, pair[2]))]_vars

\* C11 amended: one fresh click within the hit window of two alive circles of
\* one hit time that both hold the cursor hits at most one of them, whatever
\* the note lock style.
C11_OneHitPerClick ==
  [][lastCall'.target = Main
       => \A p4 \in {Phase4(lastCall'.frame)}, post \in {View(Main)'} :
            \A pair \in ClickablePairs(p4) :
              ~(HitNow(post, pair[1]) /\ HitNow(post, pair[2]))]_vars

\* Without note lock, a fresh click has just hit one of two stacked circles
\* of one hit time, and the other, within its MEH window, is still alive.
C11_Witness ==
  /\ settings.noteLockStyle = "NONE"
  /\ hasFreshClickThisFrame([gameState |-> View(Main)])
  /\ \E a \in DOMAIN View(Main).hitCircleState,
        b \in Range(View(Main).aliveHitCircleIds) :
       /\ HitNow(View(Main), a)
       /\ View(Main).hitCircleState[a].judgementTime = View(Main).currentTime
       /\ getHitCircle(a).hitTime = getHitCircle(b).hitTime
       /\ InsideCircle(View(Main), getHitCircle(a))
       /\ InsideCircle(View(Main), getHitCircle(b))
       /\ isWithinHitWindow(View(Main).currentTime - getHitCircle(b).hitTime, "MEH")

\* The checkpoints of slider that the call with frame on the state pre
\* crosses: those from its next checkpoint on with hitTime < frame.time.
CrossedCheckPoints(pre, slider, frame) ==
  IF ~OMapHas(pre.nextCheckPointIndex, slider.id) THEN {}
  ELSE {k \in (OMapGet(pre.nextCheckPointIndex, slider.id) + 1)..Len(slider.checkPoints) :
          slider.checkPoints[k].hitTime < frame.time}

\* The head of slider was hit, a button is down in pre since a time that is
\* not before the head's judgement time, and at the hit time of checkPoint
\* the cursor, on its way from pre to the frame, is inside the follow circle.
HeldOnSlider(this, pre, slider, checkPoint) ==
  /\ headHitTime(pre, slider.head.id) # {}
  /\ \E i \in 1..Len(pre.pressingSince) :
       /\ pre.pressingSince[i] # NOT_PRESSING
       /\ \A h \in headHitTime(pre, slider.head.id) : pre.pressingSince[i] >= h
  /\ ~DistanceGreater(ballPositionAtTime(slider, TimeToCheck(checkPoint)),
                      predictedPositionAt(this, TimeToCheck(checkPoint)),
                      IF wasTracking(pre, slider.id) THEN 24 ELSE 10,
                      slider.radius)

\* Every checkpoint the call crosses while the button is held on the slider
\* is recorded as hit.
RepressTracks(this, pre, post, frame) ==
  \A id \in Range(pre.aliveSliderIds) :
    \A k \in CrossedCheckPoints(pre, getSlider(id), frame) :
      HeldOnSlider(this, pre, getSlider(id), getSlider(id).checkPoints[k])
        => /\ MapHas(post.checkPointState, getSlider(id).checkPoints[k].id)
           /\ post.checkPointState[getSlider(id).checkPoints[k].id].hit

\* A slider whose head and checkpoints are all hit has the verdict GREAT.
AllHitIsGreat(post) ==
  \A id \in DOMAIN post.sliderJudgement :
    (/\ HitNow(post, getSlider(id).head.id)
     /\ \A k \in 1..Len(getSlider(id).checkPoints) :
          /\ MapHas(post.checkPointState, getSlider(id).checkPoints[k].id)
          /\ post.checkPointState[getSlider(id).checkPoints[k].id].hit)
      => post.sliderJudgement[id] = "GREAT"

TimedOut(post, hitCircle) ==
  /\ MapHas(post.hitCircleState, hitCircle.id)
  /\ post.hitCircleState[hitCircle.id].type = "MISS"
  /\ post.hitCircleState[hitCircle.id].missReason = "TIME_EXPIRED"
  /\ post.hitCircleState[hitCircle.id].judgementTime
       = hitCircle.hitTime + hitWindow("MEH") + 1
  /\ post.currentTime >= hitCircle.hitTime + hitWindow("MEH") + 1

\* The circle is as it was before the call: alive, with no state, not judged.
LeftAlone(post, hitCircle) ==
  /\ StaysAlive(post, hitCircle)
  /\ hitCircle.id \notin Range(post.judgedObjects)

\* The same, for a call whose frame is before the circle's timeout.
LeftAloneBeforeTimeout(post, hitCircle) ==
  post.currentTime < hitCircle.hitTime + hitWindow("MEH") + 1
    => LeftAlone(post, hitCircle)

LeftAloneUnlessOver(post, hitCircle) ==
  IF post.currentTime >= hitCircle.hitTime + hitWindow("MEH") + 1
  THEN TimedOut(post, hitCircle)
  ELSE LeftAlone(post, hitCircle) \/ EndedWithSlider(post, hitCircle)

\* The circle was judged in the call, which p4 entered, by a click inside it
\* or by its timeout.
ByClickOrTimeout(p4, post, hitCircle) ==
  \/ TimedOut(post, hitCircle)
  \/ /\ JudgedByClick(post, hitCircle)
     /\ hasFreshClickThisFrame(p4)
     /\ InsideCircle(p4.gameState, hitCircle)

ByClickTimeoutOrSliderEnd(p4, post, hitCircle) ==
  ByClickOrTimeout(p4, post, hitCircle) \/ EndedWithSlider(post, hitCircle)

\* A fresh click outside a circle alive as handleHitCircles is entered as p4
\* leaves it as `left` says, and a circle that gets its state in the call
\* gets it as `judged` says.
SpatialMissCases(p4, post, left(_, _), judged(_, _, _)) ==
  \A id \in Range(p4.gameState.aliveHitCircleIds) :
    /\ (/\ hasFreshClickThisFrame(p4)
        /\ DistanceGreater(getHitCircle(id).position,
                           Exact(p4.gameState.cursorPosition),
                           10, getHitCircle(id).radius))
         => left(post, getHitCircle(id))
    /\ MapHas(post.hitCircleState, id) => judged(p4, post, getHitCircle(id))

\* C13 as stated: a fresh click farther than radius from an alive circle, in
\* a frame before the circle's timeout, leaves it alive, with no state and
\* not judged, and the circle is judged only by a click inside its radius or
\* by the timeout.
C13_ClickOutsideChangesNothing ==
  [][lastCall'.target = Main
       => \A p4 \in {Phase4(lastCall'.frame)}, post \in {View(Main)'} :
            SpatialMissCases(p4, post, LeftAloneBeforeTimeout,
                             ByClickOrTimeout)]_vars

\* C13 amended: a fresh click farther than radius from an alive circle
\* leaves it alive, with no state and not judged, unless the frame has
\* reached the circle's timeout, which judges it MISS/TIME_EXPIRED, or the
\* end of the slider it is the head of, which judges it
\* MISS/SLIDER_FINISHED_FASTER; a circle is judged only by a click inside its
\* radius, by the timeout or, a slider head, by the end of its slider.
C13_SpatialMiss ==
  [][lastCall'.target = Main
       => \A p4 \in {Phase4(lastCall'.frame)}, post \in {View(Main)'} :
            SpatialMissCases(p4, post, LeftAloneUnlessOver,
                             ByClickTimeoutOrSliderEnd)]_vars

\* A fresh click, which no circle used, has just missed an alive circle
\* within its MEH window: the cursor is farther away than the radius.
C13_Witness ==
  /\ hasFreshClickThisFrame([gameState |-> View(Main)])
  /\ ~View(Main).clickWasUseful
  /\ \E id \in Range(View(Main).aliveHitCircleIds) :
       /\ ~InsideCircle(View(Main), getHitCircle(id))
       /\ isWithinHitWindow(View(Main).currentTime - getHitCircle(id).hitTime, "MEH")
       /\ ~MapHas(View(Main).hitCircleState, id)

\* C14: over any sequence of evaluateNextFrameMutated calls, in time order or
\* not, latestHitObjectIndex never decreases and never exceeds the number of
\* hit objects of the beatmap.
C14_SpawnIndexMonotonic ==
  [][/\ View(Main)'.latestHitObjectIndex >= View(Main).latestHitObjectIndex
     /\ View(Main)'.latestHitObjectIndex <= Len(hitObjectsBySpawnTime)]_vars

\* Every hit object is spawned, and the latest call, with a frame earlier
\* than the state it found, is before the spawn time of the last one.
C14_Witness ==
  /\ View(Main).latestHitObjectIndex = Len(hitObjectsBySpawnTime)
  /\ \E t \in evaluator.previousTime : lastCall.frame.time < t
  /\ View(Main).currentTime
       < hitObjectsBySpawnTime[Len(hitObjectsBySpawnTime)].spawnTime

\* The ids in the alive sets of a GameState.
AliveIds(gs) ==
  Range(gs.aliveHitCircleIds) \cup Range(gs.aliveSliderIds)
    \cup Range(gs.aliveSpinnerIds)

InOneAliveSet(gs) ==
  /\ Range(gs.aliveHitCircleIds) \cap Range(gs.aliveSliderIds) = {}
  /\ Range(gs.aliveHitCircleIds) \cap Range(gs.aliveSpinnerIds) = {}
  /\ Range(gs.aliveSliderIds) \cap Range(gs.aliveSpinnerIds) = {}

IsPrefix(s, t) == Len(s) <= Len(t) /\ SubSeq(t, 1, Len(s)) = s

\* C15: an id is in at most one of aliveHitCircleIds, aliveSliderIds and
\* aliveSpinnerIds; an id leaves the alive sets only as it is judged, a
\* judged id is in no alive set, and a judged id stays judged, so that it is
\* never in an alive set again.
C15_AliveOnceOnly ==
  [][\A pre \in {View(Main)}, post \in {View(Main)'} :
       /\ InOneAliveSet(post)
       /\ AliveIds(pre) \ AliveIds(post) \subseteq Range(post.judgedObjects)
       /\ Range(post.judgedObjects) \cap AliveIds(post) = {}
       /\ IsPrefix(pre.judgedObjects, post.judgedObjects)]_vars

\* Every hit object is spawned, and a circle, a slider and a spinner have
\* left their alive sets as they were judged.
C15_Witness ==
  /\ \E i, j, k \in 1..Len(hitObjectsBySpawnTime) :
       /\ hitObjectsBySpawnTime[i].kind = "HitCircle"
       /\ hitObjectsBySpawnTime[j].kind = "Slider"
       /\ hitObjectsBySpawnTime[k].kind = "Spinner"
       /\ {hitObjectsBySpawnTime[i].id, hitObjectsBySpawnTime[j].id,
           hitObjectsBySpawnTime[k].id} \subseteq Range(View(Main).judgedObjects)
  /\ View(Main).latestHitObjectIndex = Len(hitObjectsBySpawnTime)

\* C16: every checkpoint of a spawned slider gets its checkPointState entry
\* in the first call whose frame time is greater than the checkpoint's
\* hitTime, and not before, also when that call is the one in which the
\* slider's endTime is reached.
C16_CheckPointsRecorded ==
  [][lastCall'.target = Main
       => \A p4 \in {Phase4(lastCall'.frame)}, post \in {View(Main)'} :
            \A id \in Range(p4.gameState.aliveSliderIds) :
              /\ \A k \in CrossedCheckPoints(p4.gameState, getSlider(id), lastCall'.frame) :
                   MapHas(post.checkPointState, getSlider(id).checkPoints[k].id)
              /\ \A k \in 1..Len(getSlider(id).checkPoints) :
                   MapHas(post.checkPointState, getSlider(id).checkPoints[k].id)
                     => getSlider(id).checkPoints[k].hitTime < post.currentTime]_vars

\* The buttons in the order of pressingSince.
Buttons == <<"leftButton", "rightButton">>

\* The time of the first frame of the run of frames, ending with frame n, in
\* which the button is held.
RunStart(frames, n, button) ==
  frames[CHOOSE k \in 1..n :
           /\ \A m \in k..n : button \in frames[m].actions
           /\ k = 1 \/ button \notin frames[k - 1].actions].time

\* C17: after every call, pressingSince[i] is NOT_PRESSING iff button i is
\* not held in the latest frame, and otherwise it is the time of the first
\* frame of the current uninterrupted run of frames in which it is held.
C17_PressingSince ==
  cursor[Main] >= 1 =>
    \A i \in 1..Len(Buttons) :
      IF Buttons[i] \in replays[Main][cursor[Main]].actions
      THEN /\ View(Main).pressingSince[i] # NOT_PRESSING
           /\ View(Main).pressingSince[i]
                = RunStart(replays[Main], cursor[Main], Buttons[i])
      ELSE View(Main).pressingSince[i] = NOT_PRESSING

\* The left button was released and is held again since a frame before the
\* latest one, and the right button is held since the latest frame.
C17_Witness ==
  /\ cursor[Main] = MaxFrames
  /\ "leftButton" \notin replays[Main][MaxFrames - 2].actions
  /\ View(Main).pressingSince[1] = replays[Main][MaxFrames - 1].time
  /\ View(Main).pressingSince[2] = replays[Main][MaxFrames].time
  /\ "leftButton" \in replays[Main][1].actions

CircleIds ==
  {hitObjectsBySpawnTime[i].id : i \in
     {j \in 1..Len(hitObjectsBySpawnTime) : hitObjectsBySpawnTime[j].kind = "HitCircle"}}
    \cup {hitObjectsBySpawnTime[i].head.id : i \in SliderIndices}

SliderIds == {hitObjectsBySpawnTime[i].id : i \in SliderIndices}

CheckPointIds ==
  UNION {{hitObjectsBySpawnTime[i].checkPoints[k].id :
            k \in 1..Len(hitObjectsBySpawnTime[i].checkPoints)} : i \in SliderIndices}

SpinnerIds ==
  {hitObjectsBySpawnTime[i].id : i \in
     {j \in 1..Len(hitObjectsBySpawnTime) : hitObjectsBySpawnTime[j].kind = "Spinner"}}

\* C19: every id in judgedObjects has an entry in its state map: a hit circle
\* or slider head in hitCircleState, a slider in sliderJudgement, a
\* checkpoint in checkPointState, a spinner in spinnerState.
C19_JudgedHaveState ==
  \A id \in Range(View(Main).judgedObjects) :
    /\ id \in CircleIds => MapHas(View(Main).hitCircleState, id)
    /\ id \in SliderIds => MapHas(View(Main).sliderJudgement, id)
    /\ id \in CheckPointIds => MapHas(View(Main).checkPointState, id)
    /\ id \in SpinnerIds => MapHas(View(Main).spinnerState, id)

\* The key sets of the maps that take judgements only grow from pre to post.
JudgementMapsGrow(pre, post) ==
  /\ DOMAIN pre.hitCircleState \subseteq DOMAIN post.hitCircleState
  /\ DOMAIN pre.checkPointState \subseteq DOMAIN post.checkPointState
  /\ DOMAIN pre.spinnerState \subseteq DOMAIN post.spinnerState
  /\ DOMAIN pre.sliderJudgement \subseteq DOMAIN post.sliderJudgement

SkippedAsLocked(this, hitCircle) ==
  /\ ClickReaches(this, hitCircle)
  /\ this.gameState.currentTime < earliestDeadTime(hitCircle)
  /\ noteLocked(this, hitCircle)

\* C21: under the stable policy a fresh click inside circle h is skipped as
\* locked only if, as handleHitCircle(h) runs, some circle with a lower hit
\* time is still alive and unjudged; a circle finalized earlier in the same
\* call, as TIME_EXPIRED say, does not lock h.
C21_LockedOnlyByUnjudged ==
  [][lastCall'.target = Main
       => \A p4 \in {Phase4(lastCall'.frame)} :
            \A id \in Range(p4.gameState.aliveHitCircleIds) :
              \A this \in {AtCircle(p4, id)} :
                (/\ settings.noteLockStyle = "STABLE"
                 /\ SkippedAsLocked(this, getHitCircle(id)))
                  => \E other \in Range(this.gameState.aliveHitCircleIds) :
                       /\ ~MapHas(this.gameState.hitCircleState, other)
                       /\ getHitCircle(other).hitTime < getHitCircle(id).hitTime]_vars

\* The circles alive as handleHitCircles is entered as p4 that lock hitCircle
\* under the lazer policy: those due next, when that is before hitCircle.
LazerBlockers(p4, hitCircle) ==
  {id \in Range(p4.gameState.aliveHitCircleIds) :
     /\ getHitCircle(id).hitTime \in p4.nextTimeSupposedToClick
     /\ getHitCircle(id).hitTime < hitCircle.hitTime}

\* C22: under the lazer policy, when a fresh click inside circle h is skipped
\* because an earlier circle locks h, the call leaves the blocking circle
\* finalized as MISS with miss reason FORCE_MISS_NOTELOCK.
C22_LazerForceMiss ==
  [][lastCall'.target = Main
       => \A p4 \in {Phase4(lastCall'.frame)}, post \in {View(Main)'} :
            \A id \in Range(p4.gameState.aliveHitCircleIds) :
              \A this \in {AtCircle(p4, id)} :
                (/\ settings.noteLockStyle = "LAZER"
                 /\ SkippedAsLocked(this, getHitCircle(id)))
                  => \A blocker \in LazerBlockers(p4, getHitCircle(id)) :
                       /\ MapHas(post.hitCircleState, blocker)
                       /\ post.hitCircleState[blocker].type = "MISS"
                       /\ post.hitCircleState[blocker].missReason
                            = "FORCE_MISS_NOTELOCK"]_vars

\* The least hit time of the alive hit circles that are not yet due at
\* currentTime, as an optional.
NextAliveHitTime(gs) ==
  {getHitCircle(id).hitTime : id \in
     {a \in Range(gs.aliveHitCircleIds) :
        /\ getHitCircle(a).hitTime >= gs.currentTime
        /\ \A b \in Range(gs.aliveHitCircleIds) :
             getHitCircle(b).hitTime >= gs.currentTime
               => getHitCircle(a).hitTime <= getHitCircle(b).hitTime}}

\* A fresh, unused click inside a circle that has not timed out, under the
\* lazer policy: the circle is locked iff the least hit time of the circles
\* alive before handleHitCircles and not yet due is below its own.  Locked, it
\* is not judged by the click; not locked and within the MISS window, the
\* click judges it.
LazerLockCase(p4, this, hitCircle, post) ==
  LET t == this.gameState.currentTime
      locked == \E s \in NextAliveHitTime(p4.gameState) : s < hitCircle.hitTime
  IN (/\ settings.noteLockStyle = "LAZER"
      /\ ClickReaches(this, hitCircle)
      /\ t < hitCircle.hitTime + hitWindow("MEH") + Millisecond)
       => /\ locked => AliveOrEndedWithSlider(post, hitCircle)
          /\ (~locked /\ Abs(t - hitCircle.hitTime) <= hitWindow("MISS"))
               => JudgedByClick(post, hitCircle)

\* C23: under the lazer policy circle h is locked iff t_next_supposed is
\* defined and below h.hitTime, t_next_supposed being the least hit time of
\* the alive circles with hitTime >= currentTime; an alive circle whose hit
\* time has passed never locks another circle.
C23_LazerNoteLock ==
  [][lastCall'.target = Main
       => \A p4 \in {Phase4(lastCall'.frame)}, post \in {View(Main)'} :
            hasFreshClickThisFrame(p4) =>
              \A id \in Range(p4.gameState.aliveHitCircleIds) :
                \A this \in {AtCircle(p4, id)} :
                  LazerLockCase(p4, this, getHitCircle(id), post)]_vars

\* Under the lazer policy the click of this frame hit a circle while a circle
\* with a lower hit time, already past, is still alive.
C23_Witness ==
  /\ settings.noteLockStyle = "LAZER"
  /\ \E id \in DOMAIN View(Main).hitCircleState, past \in Range(View(Main).aliveHitCircleIds) :
       /\ HitNow(View(Main), id)
       /\ View(Main).hitCircleState[id].judgementTime = View(Main).currentTime
       /\ getHitCircle(past).hitTime < View(Main).currentTime
       /\ getHitCircle(past).hitTime < getHitCircle(id).hitTime

\* C24: an alive hit circle or slider head h is finalized as
\* MISS/TIME_EXPIRED in the first call whose frame time is at least
\* h.hitTime + MEH window + 1 ms, and not in a call before; its judgementTime
\* is h.hitTime + MEH window + 1 ms however much later the frame is and
\* whatever click the frame carries, and no circle stays alive past that time.
C24_Timeout ==
  [][lastCall'.target = Main
       => \A p4 \in {Phase4(lastCall'.frame)}, post \in {View(Main)'} :
            \A id \in Range(p4.gameState.aliveHitCircleIds) :
              LET deadTime == getHitCircle(id).hitTime + hitWindow("MEH") + Millisecond
                  expired == /\ MapHas(post.hitCircleState, id)
                             /\ post.hitCircleState[id].type = "MISS"
                             /\ post.hitCircleState[id].missReason = "TIME_EXPIRED"
              IN IF post.currentTime >= deadTime
                 THEN /\ expired
                      /\ post.hitCircleState[id].judgementTime = deadTime
                      /\ id \notin Range(post.aliveHitCircleIds)
                      /\ \A t \in p4.previousTime : t < deadTime
                 ELSE ~expired]_vars

\* A frame later than the time a circle died at carried a fresh click inside
\* that circle, and the circle is MISS/TIME_EXPIRED at the time it died at,
\* which the frame before had not reached.
C24_Witness ==
  \E id \in DOMAIN View(Main).hitCircleState :
    /\ lastCall.target = Main
    /\ View(Main).hitCircleState[id].type = "MISS"
    /\ View(Main).hitCircleState[id].missReason = "TIME_EXPIRED"
    /\ View(Main).hitCircleState[id].judgementTime < View(Main).currentTime
    /\ \A t \in evaluator.previousTime :
         t < View(Main).hitCircleState[id].judgementTime
    /\ \E i \in 1..2 : View(Main).pressingSince[i] = View(Main).currentTime
    /\ InsideCircle(View(Main), getHitCircle(id))

\* handleHitCircle(id) gets as far as the hit windows: a fresh, unused click
\* inside a circle that has not timed out and is not locked.
ClickJudges(this, hitCircle) ==
  /\ ClickReaches(this, hitCircle)
  /\ this.gameState.currentTime < earliestDeadTime(hitCircle)
  /\ ~noteLocked(this, hitCircle)

\* The tightest of the GREAT, OK and MEH windows that holds a click delta
\* from the hit time, for a click within the MEH window.
TightestWindow(delta) ==
  IF Abs(delta) <= hitWindow("GREAT") THEN "GREAT"
  ELSE IF Abs(delta) <= hitWindow("OK") THEN "OK"
  ELSE "MEH"

\* C25: a fresh, unlocked click inside a circle h at delta = currentTime -
\* h.hitTime within the MEH window records the verdict of the tightest window
\* that holds |delta| (GREAT, else OK, else MEH) with judgementTime =
\* currentTime, and clickWasUseful becomes true.
C25_WindowMatch ==
  [][lastCall'.target = Main
       => \A p4 \in {Phase4(lastCall'.frame)}, post \in {View(Main)'} :
            hasFreshClickThisFrame(p4) =>
              \A id \in Range(p4.gameState.aliveHitCircleIds) :
                \A this \in {AtCircle(p4, id)} :
                  LET delta == post.currentTime - getHitCircle(id).hitTime
                  IN (/\ ClickJudges(this, getHitCircle(id))
                      /\ Abs(delta) <= hitWindow("MEH"))
                       => /\ MapHas(post.hitCircleState, id)
                          /\ post.hitCircleState[id]
                               = [judgementTime |-> post.currentTime,
                                  type |-> TightestWindow(delta)]
                          /\ post.clickWasUseful]_vars

\* The click of this frame hit a circle OK: outside its GREAT window and
\* inside its OK window, which is narrower than its MEH window.
C25_Witness ==
  \E id \in DOMAIN View(Main).hitCircleState :
    /\ View(Main).hitCircleState[id].type = "OK"
    /\ View(Main).hitCircleState[id].judgementTime = View(Main).currentTime
    /\ View(Main).clickWasUseful
    /\ Abs(View(Main).currentTime - getHitCircle(id).hitTime) > hitWindow("GREAT")
    /\ hitWindow("OK") < hitWindow("MEH")

\* The early miss of a fresh, unlocked click inside a circle, at delta =
\* currentTime - hitTime: before the MEH window and within the MISS window
\* the circle is MISS/HIT_TOO_EARLY at currentTime and the click is not used
\* up; before the MISS window the circle is left as it was.
EarlyMissCase(this, hitCircle, post) ==
  LET delta == post.currentTime - hitCircle.hitTime
  IN (/\ ClickJudges(this, hitCircle)
      /\ delta < 0
      /\ Abs(delta) > hitWindow("MEH"))
       => IF Abs(delta) <= hitWindow("MISS")
          THEN /\ MapHas(post.hitCircleState, hitCircle.id)
               /\ post.hitCircleState[hitCircle.id]
                    = [judgementTime |-> post.currentTime, type |-> "MISS",
                       missReason |-> "HIT_TOO_EARLY"]
               /\ hitCircle.id \notin Range(post.aliveHitCircleIds)
          ELSE StaysAlive(post, hitCircle)

\* C26: a fresh, unlocked click inside a circle h with delta = currentTime -
\* h.hitTime < 0, |delta| > MEH window and |delta| <= MISS window finalizes h
\* as MISS/HIT_TOO_EARLY with judgementTime = currentTime; a click earlier
\* than h.hitTime - MISS window leaves h unjudged and alive.
C26_EarlyMiss ==
  [][lastCall'.target = Main
       => \A p4 \in {Phase4(lastCall'.frame)}, post \in {View(Main)'} :
            hasFreshClickThisFrame(p4) =>
              \A id \in Range(p4.gameState.aliveHitCircleIds) :
                \A this \in {AtCircle(p4, id)} :
                  EarlyMissCase(this, getHitCircle(id), post)]_vars

\* A circle was clicked on the early edge of its MISS window and is
\* MISS/HIT_TOO_EARLY at the time of that click, while another circle, which
\* the cursor was inside at a fresh click before its MISS window, is alive
\* and unjudged.
C26_Witness ==
  /\ \E id \in DOMAIN View(Main).hitCircleState :
       /\ View(Main).hitCircleState[id].type = "MISS"
       /\ View(Main).hitCircleState[id].missReason = "HIT_TOO_EARLY"
       /\ View(Main).hitCircleState[id].judgementTime
            = getHitCircle(id).hitTime - hitWindow("MISS")
  /\ \E id \in Range(View(Main).aliveHitCircleIds) :
       /\ ~MapHas(View(Main).hitCircleState, id)
       /\ InsideCircle(View(Main), getHitCircle(id))
       /\ \E i \in 1..2 : View(Main).pressingSince[i] = View(Main).currentTime
       /\ View(Main).currentTime < getHitCircle(id).hitTime - hitWindow("MISS")

\* C27: in every reachable state, each hitCircleState entry with miss reason
\* HIT_TOO_EARLY has a judgementTime before the hit time of its circle: a
\* click later than the MEH window is caught by the timeout arm first.
C27_EarlyMissIsEarly ==
  \A id \in DOMAIN View(Main).hitCircleState :
    (/\ View(Main).hitCircleState[id].type = "MISS"
     /\ View(Main).hitCircleState[id].missReason = "HIT_TOO_EARLY")
      => View(Main).hitCircleState[id].judgementTime < getHitCircle(id).hitTime

\* What the call that enters handleSliderJudgment with the GameState `judged`
\* and ends with `post` makes of a slider alive at that point, the frame
\* before being at the times `before`: at its endTime or later the slider is
\* judged and cleaned up, and a head without a state is
\* MISS/SLIDER_FINISHED_FASTER at the endTime; before its endTime it stays.
SliderExpiryCase(before, judged, slider, post) ==
  IF slider.endTime <= post.currentTime
  THEN /\ \A t \in before : t < slider.endTime
       /\ MapHas(post.sliderJudgement, slider.id)
       /\ MapHas(post.hitCircleState, slider.head.id)
       /\ post.hitCircleState[slider.head.id]
            = IF MapHas(judged.hitCircleState, slider.head.id)
              THEN judged.hitCircleState[slider.head.id]
              ELSE [judgementTime |-> slider.endTime, type |-> "MISS",
                    missReason |-> "SLIDER_FINISHED_FASTER"]
       /\ slider.id \notin Range(post.aliveSliderIds)
       /\ slider.head.id \notin Range(post.aliveHitCircleIds)
       /\ ~OMapHas(post.nextCheckPointIndex, slider.id)
       /\ ~MapHas(post.sliderBodyState, slider.id)
  ELSE /\ ~MapHas(post.sliderJudgement, slider.id)
       /\ slider.id \in Range(post.aliveSliderIds)

\* C28: in the first call whose frame time is at least slider.endTime an
\* alive slider is finalized, and not in a call before; a head that has no
\* hitCircleState entry at that point is recorded as
\* MISS/SLIDER_FINISHED_FASTER with judgementTime = slider.endTime; after the
\* call the slider is not in aliveSliderIds, its head is not in
\* aliveHitCircleIds, and it has no nextCheckPointIndex or sliderBodyState
\* entry.
C28_SliderExpiry ==
  [][lastCall'.target = Main
       => \A p4 \in {Phase4(lastCall'.frame)}, post \in {View(Main)'} :
            \A judged \in {handleHitCircles(p4).gameState} :
              \A id \in Range(judged.aliveSliderIds) :
                SliderExpiryCase(p4.previousTime, judged, getSlider(id), post)]_vars

\* The frame is at the endTime of a slider whose head nobody hit and which
\* had not timed out: the slider is judged, and its head is
\* MISS/SLIDER_FINISHED_FASTER at that time.
C28_Witness ==
  \E i \in SliderIndices :
    LET slider == hitObjectsBySpawnTime[i]
    IN /\ View(Main).currentTime = slider.endTime
       /\ MapHas(View(Main).sliderJudgement, slider.id)
       /\ slider.id \notin Range(View(Main).aliveSliderIds)
       /\ EndedWithSlider(View(Main), slider.head)

\* The checkpoints of slider that have a checkPointState entry with hit true.
HitCheckPoints(gs, slider) ==
  {k \in 1..Len(slider.checkPoints) :
     /\ MapHas(gs.checkPointState, slider.checkPoints[k].id)
     /\ gs.checkPointState[slider.checkPoints[k].id].hit}

\* The head of slider and its checkpoints that count as hit.
HitCount(gs, slider) ==
  (IF /\ MapHas(gs.hitCircleState, slider.head.id)
      /\ gs.hitCircleState[slider.head.id].type = "MISS"
   THEN 0 ELSE 1)
  + Cardinality(HitCheckPoints(gs, slider))

\* The verdict of a slider of which hit out of total were hit.
VerdictByRatio(total, hit) ==
  IF hit = total THEN "GREAT"
  ELSE IF hit = 0 THEN "MISS"
  ELSE IF 2 * hit >= total THEN "OK"
  ELSE "MEH"

\* C29: with total = the number of checkpoints + 1 and hit = (1 if the verdict
\* of the head is not MISS, else 0) + the number of checkpoints whose
\* checkPointState has hit true, a checkpoint without a state counting as not
\* hit, the verdict of a judged slider is GREAT if hit = total, MISS if
\* hit = 0, OK if 2 * hit >= total, and MEH otherwise.
C29_SliderVerdictByRatio ==
  \A i \in SliderIndices :
    LET slider == hitObjectsBySpawnTime[i]
    IN MapHas(View(Main).sliderJudgement, slider.id)
         => View(Main).sliderJudgement[slider.id]
              = VerdictByRatio(Len(slider.checkPoints) + 1,
                               HitCount(View(Main), slider))

\* A judged slider of which exactly half was hit, one of its checkpoints
\* having no state, is OK.
C29_Witness ==
  \E i \in SliderIndices :
    LET slider == hitObjectsBySpawnTime[i]
    IN /\ MapHas(View(Main).sliderJudgement, slider.id)
       /\ View(Main).sliderJudgement[slider.id] = "OK"
       /\ 2 * HitCount(View(Main), slider) = Len(slider.checkPoints) + 1
       /\ \E k \in 1..Len(slider.checkPoints) :
            ~MapHas(View(Main).checkPointState, slider.checkPoints[k].id)

\* C30: when the head of a slider was hit at time t_h, the slider is tracked
\* only if some button that is held has pressingSince >= t_h; a button that is
\* not pressed, whose pressingSince is NOT_PRESSING, does not meet this, so
\* that one button held since before t_h does not track.
C30_FreshPressSinceHead ==
  \A id \in Range(View(Main).aliveSliderIds) :
    \A t_h \in headHitTime(View(Main), getSlider(id).head.id) :
      wasTracking(View(Main), id)
        => \E i \in 1..2 :
             /\ View(Main).pressingSince[i] # NOT_PRESSING
             /\ View(Main).pressingSince[i] >= t_h

\* The tracking predicate as its four conditions: a button is held, t is
\* within the slider, position is within the follow circle around the ball,
\* 2.4 radii wide for a slider that was tracked and 1 radius otherwise, and,
\* with a head hit time, some entry of pressingSince is at or after it.
TrackingConditions(was, slider, position, t, pressing, head) ==
  /\ \E i \in 1..Len(pressing) : pressing[i] # NOT_PRESSING
  /\ slider.startTime <= t
  /\ t < slider.endTime
  /\ ~DistanceGreater(slider.ball[t], position,
                      IF was THEN 24 ELSE 10, slider.radius)
  /\ \A t_h \in head : \E i \in 1..Len(pressing) : pressing[i] >= t_h

CursorBetween(pre, post, t) ==
  IF pre.currentTime = post.currentTime THEN Exact(post.cursorPosition)
  ELSE Interpolate(pre.cursorPosition, post.cursorPosition,
                   t - pre.currentTime, post.currentTime - pre.currentTime)

\* C32: a checkpoint that a call records is judged with the inputs from
\* before the frame of that call: the pressingSince and the
\* sliderBodyState.isTracking of its slider as the call before left them, so
\* that a button released in the crossing frame still counts as held for the
\* checkpoint and a button first pressed in the crossing frame does not count.
C32_CheckPointUsesOldInputs ==
  [][lastCall'.target = Main
       => \A pre \in {View(Main)}, post \in {View(Main)'} :
            \A i \in SliderIndices :
              \A k \in 1..Len(hitObjectsBySpawnTime[i].checkPoints) :
                LET slider == hitObjectsBySpawnTime[i]
                    checkPoint == slider.checkPoints[k]
                IN (/\ MapHas(post.checkPointState, checkPoint.id)
                    /\ ~MapHas(pre.checkPointState, checkPoint.id))
                     => post.checkPointState[checkPoint.id].hit
                          = TrackingConditions(
                              wasTracking(pre, slider.id), slider,
                              CursorBetween(pre, post, checkPoint.hitTime),
                              checkPoint.hitTime, pre.pressingSince,
                              headHitTime(post, slider.head.id))]_vars

\* In the frame right after the time of a checkpoint no button is held, and
\* the checkpoint is hit: the button released in that frame counted.
C32_Witness ==
  \E i \in SliderIndices :
    \E k \in 1..Len(hitObjectsBySpawnTime[i].checkPoints) :
      LET checkPoint == hitObjectsBySpawnTime[i].checkPoints[k]
      IN /\ MapHas(View(Main).checkPointState, checkPoint.id)
         /\ View(Main).checkPointState[checkPoint.id].hit
         /\ View(Main).currentTime = checkPoint.hitTime + 1
         /\ \A b \in 1..2 : View(Main).pressingSince[b] = NOT_PRESSING

\* The checkpoints of the beatmap, each as its slider's place in
\* hitObjectsBySpawnTime and its place among that slider's checkpoints.
CheckPointRefs ==
  UNION {{<<i, k>> : k \in 1..Len(hitObjectsBySpawnTime[i].checkPoints)} :
           i \in SliderIndices}

CheckPointAt(r) == hitObjectsBySpawnTime[r[1]].checkPoints[r[2]]

\* The slider ids of the beatmaps in the order of the ids.
SliderIdsInOrder == <<"s1", "s2", "t1", "t2">>

IdBefore(r, q) ==
  IndexOf(SliderIdsInOrder, hitObjectsBySpawnTime[r[1]].id)
    < IndexOf(SliderIdsInOrder, hitObjectsBySpawnTime[q[1]].id)

\* The slider of r came on screen before the slider of q: it is the earlier
\* in hitObjectsBySpawnTime, and so in nextCheckPointIndex.
SpawnedBefore(r, q) == r[1] < q[1]

\* What a call appended to judgedObjects.
Appended(pre, post) ==
  SubSeq(post.judgedObjects, Len(pre.judgedObjects) + 1, Len(post.judgedObjects))

\* The checkpoints that a call appended to judgedObjects all have a hit time
\* before currentTime, and come by hit time, those of one slider with one hit
\* time by their index, and those of two sliders with one hit time as
\* `before` has their sliders.
CheckPointsInOrder(pre, post, before(_, _)) ==
  \A new \in {Appended(pre, post)} :
    \A r, q \in CheckPointRefs :
      /\ CheckPointAt(r).id \in Range(new)
           => CheckPointAt(r).hitTime < post.currentTime
      /\ (/\ CheckPointAt(r).id \in Range(new)
          /\ CheckPointAt(q).id \in Range(new)
          /\ IndexOf(new, CheckPointAt(r).id) < IndexOf(new, CheckPointAt(q).id))
           => \/ CheckPointAt(r).hitTime < CheckPointAt(q).hitTime
              \/ /\ CheckPointAt(r).hitTime = CheckPointAt(q).hitTime
                 /\ IF r[1] = q[1] THEN r[2] < q[2] ELSE before(r, q)

\* C33 as stated: the checkpoints a call appends to judgedObjects come in
\* ascending hit time across the sliders, in index order within a slider, and
\* those of different sliders with one hit time in the order of the slider
\* ids; a checkpoint with hitTime = currentTime is not among them.
C33_TiesBySliderId ==
  [][lastCall'.target = Main
       => CheckPointsInOrder(View(Main), View(Main)', IdBefore)]_vars

\* C33 amended: the checkpoints a call appends to judgedObjects come in
\* ascending hit time across the sliders, in index order within a slider, and
\* those of different sliders with one hit time in the order in which the
\* sliders came on screen; a checkpoint with hitTime = currentTime is not
\* among them.
C33_CheckPointOrder ==
  [][lastCall'.target = Main
       => CheckPointsInOrder(View(Main), View(Main)', SpawnedBefore)]_vars

\* Two checkpoints of different sliders with one hit time are next to each
\* other in judgedObjects, after a checkpoint with an earlier hit time of the
\* slider that came on screen last, and the first of the two is of the slider
\* whose id is the later one.
C33_Witness ==
  \E r, q \in CheckPointRefs :
    \E n \in 2..(Len(View(Main).judgedObjects) - 1) :
      /\ View(Main).judgedObjects[n] = CheckPointAt(r).id
      /\ View(Main).judgedObjects[n + 1] = CheckPointAt(q).id
      /\ CheckPointAt(r).hitTime = CheckPointAt(q).hitTime
      /\ r[1] < q[1]
      /\ IdBefore(q, r)
      /\ \E k \in 1..(q[2] - 1) :
           View(Main).judgedObjects[n - 1] = CheckPointAt(<<q[1], k>>).id

\* The ids that hitObjectsBySpawnTime[from..to] put into the alive set of
\* `kind`, in their order: a slider puts its head among the hit circles.
SpawnedIds(from, to, kind) ==
  LET objs == SubSeq(hitObjectsBySpawnTime, from, to)
      ofKind == SelectSeq(objs, LAMBDA o :
                  o.kind = kind \/ (kind = "HitCircle" /\ o.kind = "Slider"))
  IN [n \in 1..Len(ofKind) |->
        IF ofKind[n].kind = kind THEN ofKind[n].id ELSE ofKind[n].head.id]

\* The ids that a hit object is known by: its own, and for a slider those of
\* its head and of its checkpoints.
IdsOf(hitObject) ==
  {hitObject.id} \cup
  (IF hitObject.kind = "Slider"
   THEN {hitObject.head.id}
          \cup {hitObject.checkPoints[k].id : k \in 1..Len(hitObject.checkPoints)}
   ELSE {})

\* C34: after every call in time order, latestHitObjectIndex is the number of
\* hit objects with spawnTime <= currentTime; the call inserted each of them
\* that was not counted before, and none that was, into its alive set, a
\* slider together with its head among the alive hit circles and with
\* nextCheckPointIndex 0; and no object with spawnTime > currentTime is in an
\* alive set or judged.
C34_Spawning ==
  [][lastCall'.target = Main
       => \A pre \in {View(Main)}, spawned \in {Phase4(lastCall'.frame).gameState},
             post \in {View(Main)'} :
            /\ post.latestHitObjectIndex
                 = Cardinality({i \in 1..Len(hitObjectsBySpawnTime) :
                      hitObjectsBySpawnTime[i].spawnTime <= post.currentTime})
            /\ \A from \in {pre.latestHitObjectIndex + 1}, to \in {post.latestHitObjectIndex} :
                 /\ spawned.aliveHitCircleIds
                      = pre.aliveHitCircleIds \o SpawnedIds(from, to, "HitCircle")
                 /\ spawned.aliveSliderIds
                      = pre.aliveSliderIds \o SpawnedIds(from, to, "Slider")
                 /\ spawned.aliveSpinnerIds
                      = pre.aliveSpinnerIds \o SpawnedIds(from, to, "Spinner")
                 /\ NoDuplicates(spawned.aliveHitCircleIds)
                 /\ NoDuplicates(spawned.aliveSliderIds)
                 /\ NoDuplicates(spawned.aliveSpinnerIds)
                 /\ \A n \in 1..Len(SpawnedIds(from, to, "Slider")) :
                      /\ OMapHas(spawned.nextCheckPointIndex, SpawnedIds(from, to, "Slider")[n])
                      /\ OMapGet(spawned.nextCheckPointIndex, SpawnedIds(from, to, "Slider")[n]) = 0
            /\ \A i \in 1..Len(hitObjectsBySpawnTime) :
                 hitObjectsBySpawnTime[i].spawnTime > post.currentTime
                   => \A id \in IdsOf(hitObjectsBySpawnTime[i]) :
                        /\ id \notin AliveIds(post)
                        /\ id \notin Range(post.judgedObjects)
                        /\ ~OMapHas(post.nextCheckPointIndex, id)
                        /\ ~MapHas(post.hitCircleState, id)
                        /\ ~MapHas(post.checkPointState, id)
                        /\ ~MapHas(post.sliderJudgement, id)]_vars

\* The frame is at the spawn time of the last hit object, later than that of
\* the first: the last one is alive, and a hit object before it is judged
\* and not alive.
C34_Witness ==
  /\ Len(hitObjectsBySpawnTime) > 1
  /\ View(Main).latestHitObjectIndex = Len(hitObjectsBySpawnTime)
  /\ View(Main).currentTime = hitObjectsBySpawnTime[Len(hitObjectsBySpawnTime)].spawnTime
  /\ View(Main).currentTime > hitObjectsBySpawnTime[1].spawnTime
  /\ hitObjectsBySpawnTime[Len(hitObjectsBySpawnTime)].id \in AliveIds(View(Main))
  /\ \E i \in 1..(Len(hitObjectsBySpawnTime) - 1) :
       /\ hitObjectsBySpawnTime[i].id \in Range(View(Main).judgedObjects)
       /\ hitObjectsBySpawnTime[i].id \notin AliveIds(View(Main))

\* C35: one uninterrupted press of a button is a fresh click in at most one
\* call, so that a call whose frame presses no button that was not held
\* before gives no hit circle a hit verdict (GREAT, OK or MEH), also when its
\* frame carries the time of the frame before.
C35_OnePressOneHit ==
  [][lastCall'.target = Main
       => \A pre \in {View(Main)}, post \in {View(Main)'} :
            (\A i \in 1..2 : post.pressingSince[i] # NOT_PRESSING
                               => pre.pressingSince[i] # NOT_PRESSING)
              => \A id \in DOMAIN post.hitCircleState :
                   HitNow(post, id) => MapHas(pre.hitCircleState, id)]_vars

\* The hit circles and slider heads of the beatmap.
AllHitCircles ==
  {IF hitObjectsBySpawnTime[i].kind = "Slider"
   THEN hitObjectsBySpawnTime[i].head ELSE hitObjectsBySpawnTime[i] :
     i \in {j \in 1..Len(hitObjectsBySpawnTime) :
              hitObjectsBySpawnTime[j].kind \in {"HitCircle", "Slider"}}}

\* C36: after a call with frame time T, every hit circle and slider head with
\* spawnTime <= T and hitTime + MEH window + 1 ms <= T has a hitCircleState
\* entry, every slider with spawnTime <= T and endTime <= T has a verdict, and
\* none of them is in an alive set.
C36_NothingAlivePastDeadline ==
  \A T \in {View(Main).currentTime} :
    lastCall.target = Main =>
      /\ \A hitCircle \in AllHitCircles :
           (/\ hitCircle.spawnTime <= T
            /\ hitCircle.hitTime + hitWindow("MEH") + Millisecond <= T)
             => /\ MapHas(View(Main).hitCircleState, hitCircle.id)
                /\ hitCircle.id \notin Range(View(Main).aliveHitCircleIds)
      /\ \A i \in SliderIndices :
           (/\ hitObjectsBySpawnTime[i].spawnTime <= T
            /\ hitObjectsBySpawnTime[i].endTime <= T)
             => /\ MapHas(View(Main).sliderJudgement, hitObjectsBySpawnTime[i].id)
                /\ hitObjectsBySpawnTime[i].id \notin Range(View(Main).aliveSliderIds)

\* One call found two hit circles past their deadlines, and both are
\* MISS/TIME_EXPIRED.
C36_Witness ==
  \E a, b \in AllHitCircles :
    /\ a.id # b.id
    /\ \A hitCircle \in {a, b} :
         /\ MapHas(View(Main).hitCircleState, hitCircle.id)
         /\ View(Main).hitCircleState[hitCircle.id].type = "MISS"
         /\ View(Main).hitCircleState[hitCircle.id].missReason = "TIME_EXPIRED"
         /\ View(Main).hitCircleState[hitCircle.id].judgementTime <= View(Main).currentTime
         /\ \A t \in evaluator.previousTime :
              t < View(Main).hitCircleState[hitCircle.id].judgementTime

\* ---------------------------------------------------------------- claim C37

\* Every verdict of pre is in post with the value it had: the states of the
\* hit circles and of the checkpoints and the verdicts of the sliders.
VerdictsKept(pre, post) ==
  /\ \A id \in DOMAIN pre.hitCircleState :
       /\ MapHas(post.hitCircleState, id)
       /\ post.hitCircleState[id] = pre.hitCircleState[id]
  /\ \A id \in DOMAIN pre.checkPointState :
       /\ MapHas(post.checkPointState, id)
       /\ post.checkPointState[id] = pre.checkPointState[id]
  /\ \A id \in DOMAIN pre.sliderJudgement :
       /\ MapHas(post.sliderJudgement, id)
       /\ post.sliderJudgement[id] = pre.sliderJudgement[id]

\* C37: verdicts are written once. A call leaves every recorded hit circle
\* state, checkpoint state and slider verdict as it was, and appends to
\* judgedObjects only: the judgedObjects before the call is a prefix of the
\* judgedObjects after it, and no id is judged twice.
C37_VerdictsWrittenOnce ==
  [][\A pre \in {View(Main)}, post \in {View(Main)'} :
       /\ VerdictsKept(pre, post)
       /\ Len(pre.judgedObjects) <= Len(post.judgedObjects)
       /\ \A i \in 1..Len(pre.judgedObjects) :
            post.judgedObjects[i] = pre.judgedObjects[i]
       /\ \A i, j \in 1..Len(post.judgedObjects) :
            post.judgedObjects[i] = post.judgedObjects[j] => i = j]_vars

\* The head of a slider was hit in an earlier call than the one that gave
\* the slider its verdict, a checkpoint has a state, and the head still has
\* the verdict of the hit.
C37_Witness ==
  \E i \in SliderIndices :
    /\ MapHas(View(Main).sliderJudgement, hitObjectsBySpawnTime[i].id)
    /\ MapHas(View(Main).hitCircleState, hitObjectsBySpawnTime[i].head.id)
    /\ View(Main).hitCircleState[hitObjectsBySpawnTime[i].head.id].type # "MISS"
    /\ View(Main).hitCircleState[hitObjectsBySpawnTime[i].head.id].judgementTime
         < hitObjectsBySpawnTime[i].endTime
    /\ \E k \in 1..Len(hitObjectsBySpawnTime[i].checkPoints) :
         MapHas(View(Main).checkPointState, hitObjectsBySpawnTime[i].checkPoints[k].id)
    /\ Len(View(Main).judgedObjects) >= 3

\* ---------------------------------------------------------------- claim C38

\* The time a slider's head dies at if nobody clicks it.
HeadTimeout(slider) == slider.head.hitTime + hitWindow("MEH") + Millisecond

\* The head of the slider is MISS in gs for the given reason.
HeadMissed(gs, slider, missReason) ==
  /\ MapHas(gs.hitCircleState, slider.head.id)
  /\ gs.hitCircleState[slider.head.id].type = "MISS"
  /\ gs.hitCircleState[slider.head.id].missReason = missReason

\* C38: the timeout goes before the end of the slider. A call records a
\* slider's head as MISS/SLIDER_FINISHED_FASTER only if slider.endTime <
\* head.hitTime + MEH window + 1 ms; a call whose frame reaches both the
\* head's timeout and the slider's endTime, the head having no state yet,
\* records the head as MISS/TIME_EXPIRED; and the judgementTime of every
\* state a call records is <= the currentTime of that call.
C38_TimeoutBeforeSliderEnd ==
  [][lastCall'.target = Main
       => \A pre \in {View(Main)}, post \in {View(Main)'} :
            /\ \A i \in SliderIndices :
                 \A slider \in {hitObjectsBySpawnTime[i]} :
                   ~MapHas(pre.hitCircleState, slider.head.id)
                     => /\ HeadMissed(post, slider, "SLIDER_FINISHED_FASTER")
                             => slider.endTime < HeadTimeout(slider)
                        /\ (/\ slider.spawnTime <= post.currentTime
                            /\ HeadTimeout(slider) <= post.currentTime
                            /\ slider.endTime <= post.currentTime)
                             => HeadMissed(post, slider, "TIME_EXPIRED")
            /\ \A id \in DOMAIN post.hitCircleState \ DOMAIN pre.hitCircleState :
                 post.hitCircleState[id].judgementTime <= post.currentTime]_vars

\* One frame reached both the timeout of a head and the end of its slider:
\* the frame before was earlier than both, the slider has its verdict, and
\* the head is MISS/TIME_EXPIRED.
C38_Witness ==
  \E i \in SliderIndices :
    /\ lastCall.target = Main
    /\ \A t \in evaluator.previousTime :
         /\ t < HeadTimeout(hitObjectsBySpawnTime[i])
         /\ t < hitObjectsBySpawnTime[i].endTime
    /\ evaluator.previousTime # {}
    /\ HeadTimeout(hitObjectsBySpawnTime[i]) <= View(Main).currentTime
    /\ hitObjectsBySpawnTime[i].endTime <= View(Main).currentTime
    /\ MapHas(View(Main).sliderJudgement, hitObjectsBySpawnTime[i].id)
    /\ HeadMissed(View(Main), hitObjectsBySpawnTime[i], "TIME_EXPIRED")

====
